---- MODULE Spec2Model ----
(***************************************************************************)
(* The tennis-court reservation server: Server.py with the four modules    *)
(* under server/.  One thread per accepted connection (Server.py:113-118), *)
(* no lock anywhere: every read or write of ScheduleStore.schedule and of  *)
(* AuthenticationManager.active_sessions is one atomic step, and steps of  *)
(* different connection handlers interleave freely between them.           *)
(***************************************************************************)
EXTENDS Integers, Sequences, FiniteSets, TLC

(***************************************************************************)
(* Bounds of the model.  The program has 10 users, 7 days and the hours    *)
(* 9..22; the model keeps the first NumUsers users, the first NumDays days *)
(* and the first NumHours hours.                                           *)
(***************************************************************************)
NumUsers == 2
NumDays == 2
NumHours == 2
NumConns == 2
MaxTokens == 2

(***************************************************************************)
(* models.py: the constants and the validators.                            *)
(***************************************************************************)
None == "None"

DAY_NAMES == <<"MON", "TUE", "WED", "THU", "FRI", "SAT", "SUN">>

LOWER_DAY_NAMES == <<"mon", "tue", "wed", "thu", "fri", "sat", "sun">>

DAYS == SubSeq(DAY_NAMES, 1, NumDays)

FirstHour == 9

HOURS == [i \in 1..NumHours |-> FirstHour + i - 1]

\* Python's range(a, b) as a list
range(a, b) == [i \in 1..(b - a) |-> a + i - 1]

StopHour == 23

\* HOURS of the program, of which HOURS above keeps the first NumHours
ALL_HOURS == range(FirstHour, StopHour)

USER_NAMES ==
    <<"user1", "user2", "user3", "user4", "user5",
      "user6", "user7", "user8", "user9", "user10">>

USER_PASSWORDS == <<"1", "2", "3", "4", "5", "6", "7", "8", "9", "10">>

Range(s) == {s[i] : i \in DOMAIN s}

Days == Range(DAYS)

Hours == Range(HOURS)

Users == {USER_NAMES[i] : i \in 1..NumUsers}

PREDEFINED_USERS ==
    [u \in Users |-> USER_PASSWORDS[CHOOSE i \in 1..NumUsers : USER_NAMES[i] = u]]

\* str.upper() on the day strings the model sends
upper(s) ==
    IF \E i \in DOMAIN LOWER_DAY_NAMES : LOWER_DAY_NAMES[i] = s
    THEN DAY_NAMES[CHOOSE i \in DOMAIN LOWER_DAY_NAMES : LOWER_DAY_NAMES[i] = s]
    ELSE s

is_valid_day(day) == upper(day) \in Days

\* is_valid_hour turning down the first hour of the list
is_valid_hour_above_first(hour) == hour \in Hours \ {FirstHour}

is_valid_hour(hour) == hour \in Hours

(***************************************************************************)
(* uuid.uuid4(): the n-th token minted.  Two calls never return the same   *)
(* value, so the tokens are numbered in the order they are minted.         *)
(***************************************************************************)
TOKEN_NAMES == <<"t1", "t2", "t3", "t4", "t5", "t6">>

\* a generator that hands out one value over and over
uuid4_repeats(n) == TOKEN_NAMES[1]

\* str(uuid.uuid4()): the n-th draw; two draws never give the same value
uuid4(n) == TOKEN_NAMES[n]

Minted(n) == {TOKEN_NAMES[i] : i \in 1..n}

(***************************************************************************)
(* schedule_store.py: the grid and the snapshot file.                      *)
(***************************************************************************)
EmptySchedule == [d \in Days |-> [h \in Hours |-> None]]

get_slot(sched, day, hour) ==
    IF day \in DOMAIN sched /\ hour \in DOMAIN sched[day]
    THEN sched[day][hour]
    ELSE None

is_slot_available(sched, day, hour) == get_slot(sched, day, hour) = None

\* The decimal numerals of the hours 9..22: str(hour), and the key json.dump
\* writes for an int key.
HOUR_NUMERALS ==
    <<"9", "10", "11", "12", "13", "14", "15", "16", "17", "18", "19", "20", "21", "22">>

\* the hours written with two digits, as in the f"{hour:02d}" of time_slot
HOUR_NUMERALS_02D ==
    <<"09", "10", "11", "12", "13", "14", "15", "16", "17", "18", "19", "20", "21", "22">>

\* str(hour) padded to two digits
str_02d(hour) == HOUR_NUMERALS_02D[hour - FirstHour + 1]

\* str(hour) in _load_from_file
str(hour) == HOUR_NUMERALS[hour - FirstHour + 1]

\* json.dump: an int key of a dict becomes the string of its numeral
json_key(hour) == HOUR_NUMERALS[hour - FirstHour + 1]

\* json.dump: None becomes null, a str becomes a JSON string
json_null == <<"null">>

json_value(v) == IF v = None THEN json_null ELSE <<"string", v>>

\* json.load: null becomes None, a JSON string becomes a str
python_value(j) == IF j = json_null THEN None ELSE j[2]

\* json.dump(self.schedule, f, indent=2): the JSON object written
json_dump(sched) ==
    [d \in DOMAIN sched |->
        [k \in {json_key(h) : h \in DOMAIN sched[d]} |->
            json_value(sched[d][CHOOSE h \in DOMAIN sched[d] : json_key(h) = k])]]

NoContent == [d \in {} |-> json_null]

\* The snapshot file: absent, holding a JSON object, or holding what is no
\* JSON ("partial": the file open(file, 'w') truncated, or any other bytes
\* json.load raises on).  Of a JSON object, content gives the keys whose value
\* is an object with that object, and scalars the keys whose value is a number.
NoFile == [state |-> "absent", content |-> NoContent, scalars |-> {}]

Written(sched) == [state |-> "written", content |-> json_dump(sched), scalars |-> {}]

Truncated == [state |-> "partial", content |-> NoContent, scalars |-> {}]

\* a file the server did not write: any JSON object
Foreign(content, scalars) == [state |-> "written", content |-> content, scalars |-> scalars]

\* the days of DAYS, by position, at which the loop of _load_from_file raises:
\* str(hour) in loaded[day] is a TypeError when loaded[day] is a number
raising_days(f) == {i \in 1..Len(DAYS) : DAYS[i] \in f.scalars}

\* _load_from_file keeping every day the file names
load_from_file_any_day(f) ==
    IF f.state # "written" THEN EmptySchedule
    ELSE LET loaded == f.content IN
         [d \in Days \cup DOMAIN loaded |->
            [h \in Hours |->
                IF d \in DOMAIN loaded /\ str(h) \in DOMAIN loaded[d]
                THEN python_value(loaded[d][str(h)])
                ELSE None]]

\* ScheduleStore.__init__ with _load_from_file: the grid of a store started on
\* the file f.  No file (FileNotFoundError) and a file json.load raises on
\* leave the grid _initialize_schedule built.  The loop copies day by day in
\* the order of DAYS into the grid itself; when it raises at a day, the days
\* copied before stay copied.
load_from_file(f) ==
    IF f.state # "written" THEN EmptySchedule
    ELSE LET loaded == f.content IN
         [d \in Days |->
            [h \in Hours |->
                IF /\ \A i \in raising_days(f) : \E k \in 1..(i - 1) : DAYS[k] = d
                   /\ d \in DOMAIN loaded /\ str(h) \in DOMAIN loaded[d]
                THEN python_value(loaded[d][str(h)])
                ELSE None]]

(***************************************************************************)
(* http_handler.py: requests, the bearer token, the response envelope.     *)
(***************************************************************************)
NoAuth == [scheme |-> "", cred |-> ""]

Bearer(t) == [scheme |-> "Bearer", cred |-> t]

\* hour is int(body['hour']); is_int tells whether int() accepts the value sent
NoBody ==
    [shape |-> "none", username |-> "", password |-> "", day |-> "", hour |-> 0,
     is_int |-> TRUE]

LoginBody(u, p) ==
    [shape |-> "login", username |-> u, password |-> p, day |-> "", hour |-> 0,
     is_int |-> TRUE]

ReservationBody(d, h) ==
    [shape |-> "reservation", username |-> "", password |-> "", day |-> d, hour |-> h,
     is_int |-> TRUE]

\* a body whose hour int() raises on
BadHourBody(d) == [ReservationBody(d, 0) EXCEPT !.is_int = FALSE]

\* a body that is valid JSON and not an object, a non-zero number say:
\* 'username' in body and 'day' in body raise TypeError
ScalarBody == [NoBody EXCEPT !.shape = "scalar"]

\* The bytes recv returned and what they spell.  utf8 tells whether the bytes
\* decode as UTF-8, parts is len(request_line.split(' ')); method, path, qday,
\* auth and body are what the request line, the headers and the body name.
Request(m, p, q, a, b) ==
    [raw |-> "ok", utf8 |-> TRUE, parts |-> 3,
     method |-> m, path |-> p, qday |-> q, auth |-> a, body |-> b]

EmptyRead == [Request("", <<>>, "", NoAuth, NoBody) EXCEPT !.raw = "empty"]

Malformed(m, p) == [Request(m, p, "", NoAuth, NoBody) EXCEPT !.raw = "malformed"]

\* recv raises: the client reset the connection before sending
RecvRaises == [Request("", <<>>, "", NoAuth, NoBody) EXCEPT !.raw = "reset"]

NoRequest == [Request("", <<>>, "", NoAuth, NoBody) EXCEPT !.raw = "none"]

\* the same bytes with a request line of n space-separated pieces
WithParts(r, n) == [r EXCEPT !.parts = n]

\* the same request in bytes that are not UTF-8
Undecodable(r) == [r EXCEPT !.utf8 = FALSE]

\* parse_request taking a request line without the HTTP version
parse_request_two_parts(r) ==
    IF r.raw = "malformed" \/ ~r.utf8 \/ r.parts < 2 THEN NoRequest ELSE r

\* parse_request: NoRequest stands for the None it returns when decode raises
\* or the request line does not split into three pieces
parse_request(r) ==
    IF r.raw = "malformed" \/ ~r.utf8 \/ r.parts # 3 THEN NoRequest ELSE r

\* extract_token without the startswith('Bearer ') test: any scheme is accepted
extract_token_any_scheme(r) == r.auth.cred

extract_token(r) == IF r.auth.scheme = "Bearer" THEN r.auth.cred ELSE None

\* path.startswith("/reservations")
starts_with_reservations(path) ==
    Len(path) >= 1 /\ path[1] \in {"reservations", "reservationsX"}

\* The message (and, for a login, the data) of the JSON envelope.  kind names
\* the f-string of the source that built it; day, hour and who are the values
\* the f-string interpolates.
Msg(k, d, h, w) ==
    [kind |-> k, day |-> d, hour |-> h, who |-> w, method |-> "", path |-> <<>>]

\* f"Endpoint not found: {request.method} {request.path}"
EndpointNotFound(r) ==
    [Msg("endpoint_not_found", "", 0, "") EXCEPT !.method = r.method, !.path = r.path]

NoMsg == Msg("", "", 0, "")

\* build_response counting every status below 500 as a success
build_success_below_500(status_code) == status_code < 500

build_success(status_code) == 200 <= status_code /\ status_code < 300

(***************************************************************************)
(* http_handler.py: the response on the wire.  A text is the sequence of   *)
(* its code points, the bytes of a text are those of its UTF-8 encoding.   *)
(* Of a message the text kept is the value the request supplied and the    *)
(* f-string interpolates (the day); the fixed words around it are ASCII    *)
(* and stand as the quotes that enclose it.                                *)
(***************************************************************************)
\* a day that is the one letter U+00C9, which upper() leaves as it is
NonAsciiDay == "U+00C9"

DAY_CODE_POINTS ==
    <<<<77, 79, 78>>, <<84, 85, 69>>, <<87, 69, 68>>, <<84, 72, 85>>,
      <<70, 82, 73>>, <<83, 65, 84>>, <<83, 85, 78>>>>

code_points(s) ==
    IF s = NonAsciiDay THEN <<201>>
    ELSE IF s = "XYZ" THEN <<88, 89, 90>>
    ELSE IF \E i \in DOMAIN DAY_NAMES : DAY_NAMES[i] = s
    THEN DAY_CODE_POINTS[CHOOSE i \in DOMAIN DAY_NAMES : DAY_NAMES[i] = s]
    ELSE <<>>

RECURSIVE concat(_)
concat(ss) == IF ss = <<>> THEN <<>> ELSE Head(ss) \o concat(Tail(ss))

\* the code point of a hexadecimal digit, lower case as json.dumps writes it
hex_digit(d) == IF d < 10 THEN 48 + d ELSE 87 + d

\* json.dumps with ensure_ascii: a code point above 127 becomes \uXXXX
json_escape(cp) ==
    IF cp < 128 THEN <<cp>>
    ELSE <<92, 117, hex_digit(cp \div 4096), hex_digit((cp \div 256) % 16),
           hex_digit((cp \div 16) % 16), hex_digit(cp % 16)>>

json_string(text) == <<34>> \o concat([i \in DOMAIN text |-> json_escape(text[i])]) \o <<34>>

\* str.encode('utf-8') of one code point of the basic plane
utf8(cp) ==
    IF cp < 128 THEN <<cp>>
    ELSE IF cp < 2048 THEN <<192 + (cp \div 64), 128 + (cp % 64)>>
    ELSE <<224 + (cp \div 4096), 128 + ((cp \div 64) % 64), 128 + (cp % 64)>>

encode(text) == concat([i \in DOMAIN text |-> utf8(text[i])])

\* data is None
NoData == <<>>

\* json.dumps of the envelope: {, true or false, the message, the data if
\* there is one, }
json_dumps(success, m, data) ==
    <<123>> \o (IF success THEN <<116>> ELSE <<102>>) \o json_string(code_points(m.day))
    \o data \o <<125>>

\* HTTPResponse.__init__
HTTPResponse(status_code) ==
    [status_code |-> status_code,
     headers |-> ("Content-Type" :> "application/json" @@ "Connection" :> "close"),
     body |-> <<>>]

\* HTTPResponse.set_json_body, given the text json.dumps returned; the header
\* holds the decimal numeral of the length, kept here as the number
set_json_body(response, text) ==
    [response EXCEPT
        !.body = text,
        !.headers = ("Content-Length" :> Len(encode(text)))
                    @@ ("Content-Type" :> "application/json") @@ response.headers]

build_response(status_code, data, m) ==
    set_json_body(HTTPResponse(status_code), json_dumps(build_success(status_code), m, data))

\* HTTPResponse.to_bytes: the status line, a line per header, the body
to_bytes(response) ==
    [status_code |-> response.status_code,
     headers |-> response.headers,
     body |-> encode(response.body)]

\* status of a closed connection that was sent nothing (Server.py:152-153)
NoResponse == 0

(***************************************************************************)
(* auth_manager.py                                                         *)
(***************************************************************************)
\* authenticate without the password test of auth_manager.py:72
authenticate_any_password(u, p) == u \in DOMAIN PREDEFINED_USERS

authenticate(u, p) == u \in DOMAIN PREDEFINED_USERS /\ PREDEFINED_USERS[u] = p

\* validate_token under which a later login of a user ends the user's earlier
\* sessions: only the token handed out last to its user validates
validate_token_newest(sessions, token) ==
    IF /\ token \in DOMAIN sessions
       /\ ~\E i, j \in DOMAIN TOKEN_NAMES :
              /\ i < j /\ TOKEN_NAMES[i] = token
              /\ TOKEN_NAMES[j] \in DOMAIN sessions
              /\ sessions[TOKEN_NAMES[j]] = sessions[token]
    THEN sessions[token] ELSE None

validate_token(sessions, token) ==
    IF token \in DOMAIN sessions THEN sessions[token] ELSE None

NoSessions == [t \in {} |-> None]

\* a session store that holds one session: the new one replaces the others
add_session_single(sessions, token, u) == [t \in {token} |-> u]

\* AuthenticationManager.logout: what it returns
logout_returns(sessions, token) == token \in DOMAIN sessions

\* logout ending every session
logout_clears_all(sessions, token) == [t \in {} |-> ""]

\* AuthenticationManager.logout: del self.active_sessions[token]
logout(sessions, token) == [t \in DOMAIN sessions \ {token} |-> sessions[t]]

add_session(sessions, token, u) ==
    [t \in DOMAIN sessions \cup {token} |-> IF t = token THEN u ELSE sessions[t]]

(***************************************************************************)
(* Server.py: the status handle_make_reservation and                       *)
(* handle_cancel_reservation read off the manager's message.               *)
(***************************************************************************)
\* handle_make_reservation reading the status off the message without looking
\* at success first
reservation_status_by_message(m) ==
    IF m.kind = "already_have_a_reservation" THEN 403
    ELSE IF m.kind = "already_reserved_by" THEN 409
    ELSE 400

\* "already have a reservation" in message / "already reserved" in message
reservation_status(m) ==
    IF m.kind = "reservation_successful" THEN 200
    ELSE IF m.kind = "already_have_a_reservation" THEN 403
    ELSE IF m.kind = "already_reserved_by" THEN 409
    ELSE 400

\* handle_cancel_reservation answering every failure with 400
cancel_status_all_400(m) == IF m.kind = "cancelled_reservation" THEN 200 ELSE 400

\* "Invalid day" in message
cancel_status(m) ==
    IF m.kind = "cancelled_reservation" THEN 200
    ELSE IF m.kind = "invalid_day" THEN 400
    ELSE 404

(***************************************************************************)
(* Server.py route_request and the handlers, up to the handler's first     *)
(* access to the grid: what a connection handler computes from the bytes   *)
(* it read and from one look at the session store.  The result is the      *)
(* handler's next position with its local variables.                       *)
(***************************************************************************)
Frame(p, u, d, h, s, m) ==
    [pc |-> p, username |-> u, day |-> d, hour |-> h, status |-> s, message |-> m]

Reply(u, s, m) == Frame("done", u, "", 0, s, m)

\* an exception that leaves route_request for the except of handle_client
Raise(u) == Frame("except", u, "", 0, NoResponse, NoMsg)

\* handle_login telling an unknown username from a wrong password
handle_login_names_user(r, n) ==
    IF r.body.shape = "scalar" THEN Raise(None)
    ELSE IF r.body.shape # "login"
    THEN Reply(None, 400, Msg("missing_username_or_password", "", 0, ""))
    ELSE IF authenticate(r.body.username, r.body.password)
    THEN Reply(r.body.username, 200, Msg("login_successful", "", 0, uuid4(n + 1)))
    ELSE IF r.body.username \notin DOMAIN PREDEFINED_USERS
    THEN Reply(None, 401, Msg("unknown_username", "", 0, ""))
    ELSE Reply(None, 401, Msg("invalid_username_or_password", "", 0, ""))

handle_login(r, n) ==
    IF r.body.shape = "scalar" THEN Raise(None)
    ELSE IF r.body.shape # "login"
    THEN Reply(None, 400, Msg("missing_username_or_password", "", 0, ""))
    ELSE IF authenticate(r.body.username, r.body.password)
    THEN Reply(r.body.username, 200, Msg("login_successful", "", 0, uuid4(n + 1)))
    ELSE Reply(None, 401, Msg("invalid_username_or_password", "", 0, ""))

handle_get_day_schedule(r, u) ==
    LET d == upper(r.qday) IN
    IF d = "" THEN Reply(u, 400, Msg("missing_day_query_parameter", "", 0, ""))
    ELSE IF ~is_valid_day(d) THEN Reply(u, 400, Msg("invalid_day", d, 0, ""))
    ELSE Frame("get_day_schedule", u, d, 0, NoResponse, NoMsg)

\* handle_make_reservation with the hour validated before the day
handle_make_reservation_hour_first(r, u) ==
    LET d == upper(r.body.day)
        h == r.body.hour
    IN
    IF r.body.shape = "scalar" THEN Raise(u)
    ELSE IF r.body.shape # "reservation"
    THEN Reply(u, 400, Msg("missing_day_or_hour", "", 0, ""))
    ELSE IF ~r.body.is_int
    THEN Reply(u, 400, Msg("invalid_hour_format", "", 0, ""))
    ELSE IF ~is_valid_hour(h)
    THEN Reply(u, reservation_status(Msg("invalid_hour", "", h, "")),
               Msg("invalid_hour", "", h, ""))
    ELSE IF ~is_valid_day(d)
    THEN Reply(u, reservation_status(Msg("invalid_day", d, 0, "")),
               Msg("invalid_day", d, 0, ""))
    ELSE Frame("mr_existing", u, d, h, NoResponse, NoMsg)

handle_make_reservation(r, u) ==
    LET d == upper(r.body.day)
        h == r.body.hour
    IN
    IF r.body.shape = "scalar" THEN Raise(u)
    ELSE IF r.body.shape # "reservation"
    THEN Reply(u, 400, Msg("missing_day_or_hour", "", 0, ""))
    ELSE IF ~r.body.is_int
    THEN Reply(u, 400, Msg("invalid_hour_format", "", 0, ""))
    ELSE IF ~is_valid_day(d)
    THEN Reply(u, reservation_status(Msg("invalid_day", d, 0, "")),
               Msg("invalid_day", d, 0, ""))
    ELSE IF ~is_valid_hour(h)
    THEN Reply(u, reservation_status(Msg("invalid_hour", "", h, "")),
               Msg("invalid_hour", "", h, ""))
    ELSE Frame("mr_existing", u, d, h, NoResponse, NoMsg)

\* handle_cancel_reservation looking at the path before the query
handle_cancel_reservation_path_first(r, u) ==
    LET q == r.qday
        d == upper(IF Len(r.path) >= 2 /\ r.path[2] # "" THEN r.path[2] ELSE q)
    IN
    IF d = "" THEN Reply(u, 400, Msg("missing_day_parameter", "", 0, ""))
    ELSE IF ~is_valid_day(d)
    THEN Reply(u, cancel_status(Msg("invalid_day", d, 0, "")), Msg("invalid_day", d, 0, ""))
    ELSE Frame("cr_existing", u, d, 0, NoResponse, NoMsg)

handle_cancel_reservation(r, u) ==
    LET q == r.qday
        d == upper(IF q # "" THEN q ELSE IF Len(r.path) >= 2 THEN r.path[2] ELSE "")
    IN
    IF d = "" THEN Reply(u, 400, Msg("missing_day_parameter", "", 0, ""))
    ELSE IF ~is_valid_day(d)
    THEN Reply(u, cancel_status(Msg("invalid_day", d, 0, "")), Msg("invalid_day", d, 0, ""))
    ELSE Frame("cr_existing", u, d, 0, NoResponse, NoMsg)

\* route_authenticated sending every DELETE to handle_cancel_reservation
route_authenticated_any_delete(r, u) ==
    IF r.method = "GET" /\ r.path = <<"schedule">>
    THEN Frame("get_weekly_schedule", u, "", 0, NoResponse, NoMsg)
    ELSE IF r.method = "GET" /\ r.path = <<"schedule", "day">>
    THEN handle_get_day_schedule(r, u)
    ELSE IF r.method = "GET" /\ r.path = <<"reservations">>
    THEN Frame("get_user_reservations", u, "", 0, NoResponse, NoMsg)
    ELSE IF r.method = "POST" /\ r.path = <<"reservations">>
    THEN handle_make_reservation(r, u)
    ELSE IF r.method = "DELETE"
    THEN handle_cancel_reservation(r, u)
    ELSE Reply(u, 404, EndpointNotFound(r))

route_authenticated(r, u) ==
    IF r.method = "GET" /\ r.path = <<"schedule">>
    THEN Frame("get_weekly_schedule", u, "", 0, NoResponse, NoMsg)
    ELSE IF r.method = "GET" /\ r.path = <<"schedule", "day">>
    THEN handle_get_day_schedule(r, u)
    ELSE IF r.method = "GET" /\ r.path = <<"reservations">>
    THEN Frame("get_user_reservations", u, "", 0, NoResponse, NoMsg)
    ELSE IF r.method = "POST" /\ r.path = <<"reservations">>
    THEN handle_make_reservation(r, u)
    ELSE IF r.method = "DELETE" /\ starts_with_reservations(r.path)
    THEN handle_cancel_reservation(r, u)
    ELSE Reply(u, 404, EndpointNotFound(r))

route_request(r, sessions, n) ==
    IF r.method = "POST" /\ r.path = <<"login">> THEN handle_login(r, n)
    ELSE IF r.method = "POST" /\ r.path = <<"reset">>
    THEN Frame("init_schedule", None, "", 0, NoResponse, NoMsg)
    ELSE LET token == extract_token(r) IN
         IF token \in {None, ""}
         THEN Reply(None, 401, Msg("missing_authentication_token", "", 0, ""))
         ELSE IF validate_token(sessions, token) = None
         THEN Reply(None, 401, Msg("invalid_or_expired_token", "", 0, ""))
         ELSE route_authenticated(r, validate_token(sessions, token))

\* handle_client without the test of Server.py:152: the empty read is parsed
first_frame_parses_empty(r, sessions, n) ==
    IF r.raw = "reset" THEN Raise(None)
    ELSE IF r.raw = "empty" \/ parse_request(r) = NoRequest
    THEN Reply(None, 400, Msg("malformed_http_request", "", 0, ""))
    ELSE route_request(parse_request(r), sessions, n)

\* handle_client from recv to the first access to the grid
first_frame(r, sessions, n) ==
    IF r.raw = "reset" THEN Raise(None)
    ELSE IF r.raw = "empty" THEN Reply(None, NoResponse, NoMsg)
    ELSE IF parse_request(r) = NoRequest
    THEN Reply(None, 400, Msg("malformed_http_request", "", 0, ""))
    ELSE route_request(parse_request(r), sessions, n)

(***************************************************************************)
(* The state.  schedule, active_sessions and file are shared by every      *)
(* handler; minted counts the uuid4 tokens handed out.  The rest is local  *)
(* to the handler of connection c: its position pc[c], the request it      *)
(* read, route_request's username, the day and hour it works on, a loop    *)
(* index, the hour get_user_reservation_for_day returned, the list a GET   *)
(* handler is building, and the response it sent.  interfered[c] records   *)
(* that another handler changed the grid since c was accepted, wrote[c]     *)
(* that the handler of c has written the grid or the snapshot file.        *)
(* peer[c] is the client's end of the connection: "open", or "gone" once   *)
(* the client has reset it, after which recv and sendall raise.  listening *)
(* tells that the accept loop of start() runs.  history, where it is       *)
(* recorded (it is not where it is empty), is the set of the grids that    *)
(* stood after a completed mutation.                                       *)
(***************************************************************************)
VARIABLES schedule, active_sessions, minted, file,
          pc, req, username, cur_day, cur_hour, idx, existing, view,
          status, message, interfered, wrote, peer, listening, history

shared == <<schedule, active_sessions, minted, file>>

locals == <<pc, req, username, cur_day, cur_hour, idx, existing, view, status, message>>

vars == <<schedule, active_sessions, minted, file,
          pc, req, username, cur_day, cur_hour, idx, existing, view,
          status, message, interfered, wrote, peer, listening, history>>

Conns == 1..NumConns

\* TennisCourtServer.__init__ on a first run: no snapshot file, no session
Init ==
    /\ schedule = EmptySchedule
    /\ active_sessions = NoSessions
    /\ minted = 0
    /\ file = NoFile
    /\ pc = [c \in Conns |-> "idle"]
    /\ req = [c \in Conns |-> NoRequest]
    /\ username = [c \in Conns |-> None]
    /\ cur_day = [c \in Conns |-> ""]
    /\ cur_hour = [c \in Conns |-> 0]
    /\ idx = [c \in Conns |-> 1]
    /\ existing = [c \in Conns |-> <<>>]
    /\ view = [c \in Conns |-> <<>>]
    /\ status = [c \in Conns |-> NoResponse]
    /\ message = [c \in Conns |-> NoMsg]
    /\ interfered = [c \in Conns |-> FALSE]
    /\ wrote = [c \in Conns |-> FALSE]
    /\ peer = [c \in Conns |-> "open"]
    /\ listening = TRUE
    /\ history = {}

InFlight(c) == pc[c] \notin {"idle", "done"}

\* the handler of c moves to position p with loop index i
Goto(c, p, i) ==
    /\ pc' = [pc EXCEPT ![c] = p]
    /\ idx' = [idx EXCEPT ![c] = i]
    /\ UNCHANGED <<req, username, cur_day, cur_hour, status, message, peer, listening>>

\* sendall(response.to_bytes()) that raises after the response went out
Respond_then_raise(c, s, m) ==
    /\ pc' = [pc EXCEPT ![c] = "except"]
    /\ idx' = [idx EXCEPT ![c] = 1]
    /\ status' = [status EXCEPT ![c] = s]
    /\ message' = [message EXCEPT ![c] = m]
    /\ UNCHANGED <<req, username, cur_day, cur_hour, peer, listening>>

\* sendall(response.to_bytes()) and the handler's return; on a connection the
\* client has reset sendall raises and nothing is delivered
Respond(c, s, m) ==
    /\ idx' = [idx EXCEPT ![c] = 1]
    /\ IF peer[c] = "open"
       THEN /\ pc' = [pc EXCEPT ![c] = "done"]
            /\ status' = [status EXCEPT ![c] = s]
            /\ message' = [message EXCEPT ![c] = m]
       ELSE /\ pc' = [pc EXCEPT ![c] = "except"]
            /\ UNCHANGED <<status, message>>
    /\ UNCHANGED <<req, username, cur_day, cur_hour, peer, listening>>

\* a write to the grid by the handler of c, seen by the other open connections;
\* the grid it leaves is recorded when the write completes a mutation: the one
\* write of a reservation or of a cancellation, the last day of a reset
WriteSchedule(c, new) ==
    /\ schedule' = new
    /\ interfered' = [x \in Conns |->
                        IF x # c /\ pc[x] # "idle" /\ new # schedule
                        THEN TRUE ELSE interfered[x]]
    /\ wrote' = [wrote EXCEPT ![c] = TRUE]
    /\ history' =
          IF history = {} THEN {}
          ELSE IF pc[c] = "init_schedule" => idx[c] = Len(DAYS)
          THEN history \cup {new}
          ELSE history

(***************************************************************************)
(* Server.py handle_client: accept, recv, parse_request, route_request and *)
(* the handler up to its first access to the grid.  R is the set of        *)
(* requests the clients send; a bearer token that looks like a minted one  *)
(* is one that was minted (tokens are unguessable).                        *)
(***************************************************************************)
handle_client(c, R) ==
    /\ listening
    /\ pc[c] = "idle"
    /\ \E r \in R :
        /\ r.auth.cred \in Minted(MaxTokens) => r.auth.cred \in Minted(minted)
        /\ LET f == first_frame(r, active_sessions, minted)
               login == f.message.kind = "login_successful"
           IN
           /\ login => minted < MaxTokens
           /\ req' = [req EXCEPT ![c] = r]
           /\ pc' = [pc EXCEPT ![c] = f.pc]
           /\ username' = [username EXCEPT ![c] = f.username]
           /\ cur_day' = [cur_day EXCEPT ![c] = f.day]
           /\ cur_hour' = [cur_hour EXCEPT ![c] = f.hour]
           /\ status' = [status EXCEPT ![c] = f.status]
           /\ message' = [message EXCEPT ![c] = f.message]
           /\ idx' = [idx EXCEPT ![c] = 1]
           /\ existing' = [existing EXCEPT ![c] = <<>>]
           /\ view' = [view EXCEPT ![c] = <<>>]
           /\ interfered' = [interfered EXCEPT ![c] = FALSE]
           /\ wrote' = [wrote EXCEPT ![c] = FALSE]
           \* AuthenticationManager.authenticate: self.active_sessions[token] = session
           /\ active_sessions' =
                 IF login THEN add_session(active_sessions, f.message.who, f.username)
                 ELSE active_sessions
           /\ minted' = IF login THEN minted + 1 ELSE minted
           /\ peer' = [peer EXCEPT ![c] = IF r.raw = "reset" THEN "gone" ELSE "open"]
           /\ UNCHANGED <<schedule, file, listening, history>>

\* a handler that, having answered, reads the connection again (keep-alive)
\* and finds it closed by the client
close_keep_alive(c) ==
    /\ pc[c] = "done"
    /\ req[c].raw # "empty"
    /\ req' = [req EXCEPT ![c] = EmptyRead]
    /\ UNCHANGED <<shared, pc, username, cur_day, cur_hour, idx, existing, view,
                   status, message, interfered, wrote, peer, listening, history>>

\* finally: client_socket.close(); the thread ends
close(c) ==
    /\ pc[c] = "done"
    /\ pc' = [pc EXCEPT ![c] = "idle"]
    /\ req' = [req EXCEPT ![c] = NoRequest]
    /\ username' = [username EXCEPT ![c] = None]
    /\ cur_day' = [cur_day EXCEPT ![c] = ""]
    /\ cur_hour' = [cur_hour EXCEPT ![c] = 0]
    /\ idx' = [idx EXCEPT ![c] = 1]
    /\ existing' = [existing EXCEPT ![c] = <<>>]
    /\ view' = [view EXCEPT ![c] = <<>>]
    /\ status' = [status EXCEPT ![c] = NoResponse]
    /\ message' = [message EXCEPT ![c] = NoMsg]
    /\ interfered' = [interfered EXCEPT ![c] = FALSE]
    /\ wrote' = [wrote EXCEPT ![c] = FALSE]
    /\ peer' = [peer EXCEPT ![c] = "open"]
    /\ UNCHANGED <<shared, listening, history>>

\* the client resets the connection while its request is being handled
peer_resets(c) ==
    /\ InFlight(c)
    /\ peer[c] = "open"
    /\ peer' = [peer EXCEPT ![c] = "gone"]
    /\ UNCHANGED <<shared, locals, interfered, wrote, listening, history>>

\* except Exception that also ends the process: every thread stops where it is
\* and the accept loop with them
internal_server_error_exits(c) ==
    /\ pc[c] = "except"
    /\ pc' = [x \in Conns |-> IF pc[x] = "idle" THEN "idle" ELSE "done"]
    /\ listening' = FALSE
    /\ UNCHANGED <<shared, req, username, cur_day, cur_hour, idx, existing, view,
                   status, message, interfered, wrote, peer, history>>

\* except Exception as e (Server.py:175-184): the 500 is built and sent; when
\* that sendall raises too, the bare except passes
internal_server_error(c) ==
    /\ pc[c] = "except"
    /\ pc' = [pc EXCEPT ![c] = "done"]
    /\ IF peer[c] = "open"
       THEN /\ status' = [status EXCEPT ![c] = 500]
            /\ message' = [message EXCEPT ![c] = Msg("internal_server_error", "", 0, "")]
       ELSE UNCHANGED <<status, message>>
    /\ UNCHANGED <<shared, req, username, cur_day, cur_hour, idx, existing, view,
                   interfered, wrote, peer, listening, history>>

(***************************************************************************)
(* reservation_manager.py make_reservation and cancel_reservation, with    *)
(* the ScheduleStore methods they call; one action per access to the grid. *)
(***************************************************************************)
\* get_user_reservation_for_day whose caller reports the hour it asked for
\* instead of the hour the loop found
get_user_reservation_for_day_requested(c) ==
    /\ pc[c] \in {"mr_existing", "cr_existing"}
    /\ LET h == HOURS[idx[c]]
           mine == get_slot(schedule, cur_day[c], h) = username[c]
           m == Msg("already_have_a_reservation", cur_day[c], cur_hour[c], "")
           n == Msg("no_reservation", cur_day[c], 0, "")
       IN
       IF mine /\ pc[c] = "mr_existing"
       THEN Respond(c, reservation_status(m), m) /\ UNCHANGED existing
       ELSE IF mine
       THEN Goto(c, "cs_available", 1) /\ existing' = [existing EXCEPT ![c] = <<h>>]
       ELSE IF idx[c] < Len(HOURS)
       THEN Goto(c, pc[c], idx[c] + 1) /\ UNCHANGED existing
       ELSE IF pc[c] = "mr_existing"
       THEN Goto(c, "mr_available", 1) /\ UNCHANGED existing
       ELSE Respond(c, cancel_status(n), n) /\ UNCHANGED existing
    /\ UNCHANGED <<shared, view, interfered, wrote, history>>

\* ScheduleStore.get_user_reservation_for_day: one get_slot of the loop
get_user_reservation_for_day(c) ==
    /\ pc[c] \in {"mr_existing", "cr_existing"}
    /\ LET h == HOURS[idx[c]]
           mine == get_slot(schedule, cur_day[c], h) = username[c]
           m == Msg("already_have_a_reservation", cur_day[c], h, "")
           n == Msg("no_reservation", cur_day[c], 0, "")
       IN
       IF mine /\ pc[c] = "mr_existing"
       THEN Respond(c, reservation_status(m), m) /\ UNCHANGED existing
       ELSE IF mine
       THEN Goto(c, "cs_available", 1) /\ existing' = [existing EXCEPT ![c] = <<h>>]
       ELSE IF idx[c] < Len(HOURS)
       THEN Goto(c, pc[c], idx[c] + 1) /\ UNCHANGED existing
       ELSE IF pc[c] = "mr_existing"
       THEN Goto(c, "mr_available", 1) /\ UNCHANGED existing
       ELSE Respond(c, cancel_status(n), n) /\ UNCHANGED existing
    /\ UNCHANGED <<shared, view, interfered, wrote, history>>

\* make_reservation: if not self.store.is_slot_available(day, hour)
make_reservation_available(c) ==
    /\ pc[c] = "mr_available"
    /\ IF is_slot_available(schedule, cur_day[c], cur_hour[c])
       THEN Goto(c, "rs_available", 1)
       ELSE Goto(c, "mr_occupant", 1)
    /\ UNCHANGED <<shared, existing, view, interfered, wrote, history>>

\* make_reservation naming the caller instead of the occupant
make_reservation_occupant_caller(c) ==
    /\ pc[c] = "mr_occupant"
    /\ LET m == Msg("already_reserved_by", cur_day[c], cur_hour[c], username[c])
       IN Respond(c, reservation_status(m), m)
    /\ UNCHANGED <<shared, existing, view, interfered, wrote, history>>

\* make_reservation: occupant = self.store.get_slot(day, hour)
make_reservation_occupant(c) ==
    /\ pc[c] = "mr_occupant"
    /\ LET m == Msg("already_reserved_by", cur_day[c], cur_hour[c],
                    get_slot(schedule, cur_day[c], cur_hour[c]))
       IN Respond(c, reservation_status(m), m)
    /\ UNCHANGED <<shared, existing, view, interfered, wrote, history>>

\* ScheduleStore.reserve_slot: if not self.is_slot_available(day, hour): return False
reserve_slot_available(c) ==
    /\ pc[c] = "rs_available"
    /\ LET m == Msg("unexpected_error", "", 0, "") IN
       IF is_slot_available(schedule, cur_day[c], cur_hour[c])
       THEN Goto(c, "rs_write", 1)
       ELSE Respond(c, reservation_status(m), m)
    /\ UNCHANGED <<shared, existing, view, interfered, wrote, history>>

\* reserve_slot that returns True after its write, without _save_to_file
reserve_slot_unsaved(c) ==
    /\ pc[c] = "rs_write"
    /\ WriteSchedule(c, [schedule EXCEPT ![cur_day[c]][cur_hour[c]] = username[c]])
    /\ LET ok == Msg("reservation_successful", cur_day[c], cur_hour[c], "")
       IN Respond(c, reservation_status(ok), ok)
    /\ UNCHANGED <<active_sessions, minted, file, existing, view>>

\* ScheduleStore.reserve_slot: self.schedule[day][hour] = username
reserve_slot(c) ==
    /\ pc[c] = "rs_write"
    /\ WriteSchedule(c, [schedule EXCEPT ![cur_day[c]][cur_hour[c]] = username[c]])
    /\ Goto(c, "rs_open", 1)
    /\ UNCHANGED <<active_sessions, minted, file, existing, view>>

\* ScheduleStore.cancel_reservation: if self.is_slot_available(day, hour): return False
cancel_reservation_available(c) ==
    /\ pc[c] = "cs_available"
    /\ LET m == Msg("unexpected_error", "", 0, "") IN
       IF is_slot_available(schedule, cur_day[c], existing[c][1])
       THEN Respond(c, cancel_status(m), m)
       ELSE Goto(c, "cs_write", 1)
    /\ UNCHANGED <<shared, existing, view, interfered, wrote, history>>

\* ScheduleStore.cancel_reservation that returns True and leaves the owner
cancel_reservation_kept(c) ==
    /\ pc[c] = "cs_write"
    /\ WriteSchedule(c, schedule)
    /\ Goto(c, "cs_open", 1)
    /\ UNCHANGED <<active_sessions, minted, file, existing, view>>

\* ScheduleStore.cancel_reservation: self.schedule[day][hour] = None
cancel_reservation(c) ==
    /\ pc[c] = "cs_write"
    /\ WriteSchedule(c, [schedule EXCEPT ![cur_day[c]][existing[c][1]] = None])
    /\ Goto(c, "cs_open", 1)
    /\ UNCHANGED <<active_sessions, minted, file, existing, view>>

(***************************************************************************)
(* ScheduleStore._save_to_file, called by reserve_slot, cancel_reservation *)
(* and reset_schedule after their write: open(file, 'w') truncates the     *)
(* file, json.dump and the close of the with block write the grid as it    *)
(* is then.  An exception in either is caught and printed.                 *)
(***************************************************************************)
\* what the caller of _save_to_file does next
after_save(c) ==
    LET ok == Msg("reservation_successful", cur_day[c], cur_hour[c], "")
        ca == Msg("cancelled_reservation", cur_day[c],
                  IF existing[c] = <<>> THEN 0 ELSE existing[c][1], "")
    IN
    IF pc[c] \in {"rs_open", "rs_dump"} THEN Respond(c, reservation_status(ok), ok)
    ELSE IF pc[c] \in {"cs_open", "cs_dump"} THEN Respond(c, cancel_status(ca), ca)
    ELSE Goto(c, "clear_all_sessions", 1)

dump_of(p) ==
    IF p = "rs_open" THEN "rs_dump" ELSE IF p = "cs_open" THEN "cs_dump" ELSE "reset_dump"

\* with open(self.persistence_file, 'w') as f
save_open(c) ==
    /\ pc[c] \in {"rs_open", "cs_open", "reset_open"}
    /\ file' = Truncated
    /\ Goto(c, dump_of(pc[c]), 1)
    /\ UNCHANGED <<schedule, active_sessions, minted, existing, view, interfered, history>>
    /\ wrote' = [wrote EXCEPT ![c] = TRUE]

\* json.dump(self.schedule, f, indent=2) and the close
save_dump(c) ==
    /\ pc[c] \in {"rs_dump", "cs_dump", "reset_dump"}
    /\ file' = Written(schedule)
    /\ after_save(c)
    /\ UNCHANGED <<schedule, active_sessions, minted, existing, view, interfered, history>>
    /\ wrote' = [wrote EXCEPT ![c] = TRUE]

\* _save_to_file without its try: the exception of open or of the write
\* reaches the except of handle_client
save_raises(c) ==
    /\ pc[c] \in {"rs_open", "cs_open", "reset_open", "rs_dump", "cs_dump", "reset_dump"}
    /\ pc' = [pc EXCEPT ![c] = "except"]
    /\ UNCHANGED <<shared, req, username, cur_day, cur_hour, idx, existing, view,
                   status, message, interfered, wrote, peer, listening, history>>

\* except Exception: open raised (the file is as it was) or the write raised
\* (the file stays truncated)
save_fails(c) ==
    /\ pc[c] \in {"rs_open", "cs_open", "reset_open", "rs_dump", "cs_dump", "reset_dump"}
    /\ after_save(c)
    /\ UNCHANGED <<shared, existing, view, interfered, wrote, history>>

(***************************************************************************)
(* POST /reset (Server.py:211-217): reset_weekly_schedule, then            *)
(* clear_all_sessions, then the 200.                                       *)
(***************************************************************************)
\* ScheduleStore._initialize_schedule: self.schedule[day] = {hour: None ...}
initialize_schedule(c) ==
    /\ pc[c] = "init_schedule"
    /\ WriteSchedule(c, [schedule EXCEPT ![DAYS[idx[c]]] = [h \in Hours |-> None]])
    /\ IF idx[c] < Len(DAYS)
       THEN Goto(c, "init_schedule", idx[c] + 1)
       ELSE Goto(c, "reset_open", 1)
    /\ UNCHANGED <<active_sessions, minted, file, existing, view>>

\* AuthenticationManager.clear_all_sessions and the response of the reset
clear_all_sessions(c) ==
    /\ pc[c] = "clear_all_sessions"
    /\ active_sessions' = NoSessions
    /\ Respond(c, 200, Msg("server_reset", "", 0, ""))
    /\ UNCHANGED <<schedule, minted, file, existing, view, interfered, wrote, history>>

(***************************************************************************)
(* The GET handlers: one get_slot per step, the list built in view[c].     *)
(***************************************************************************)
\* a slot record whose available flag is always true
SlotRecord_always_available(d, h, owner) ==
    [day |-> d, hour |-> h, available |-> TRUE, reserved_by |-> owner]

SlotRecord(d, h, owner) ==
    [day |-> d, hour |-> h, available |-> owner = None, reserved_by |-> owner]

\* the idx-th slot in the order for day in DAYS: for hour in HOURS
SlotDay(i) == DAYS[((i - 1) \div Len(HOURS)) + 1]

SlotHour(i) == HOURS[((i - 1) % Len(HOURS)) + 1]

\* ScheduleStore.get_weekly_schedule
get_weekly_schedule(c) ==
    /\ pc[c] = "get_weekly_schedule"
    /\ LET d == SlotDay(idx[c])
           h == SlotHour(idx[c])
       IN view' = [view EXCEPT ![c] = Append(@, SlotRecord(d, h, get_slot(schedule, d, h)))]
    /\ IF idx[c] < Len(DAYS) * Len(HOURS)
       THEN Goto(c, pc[c], idx[c] + 1)
       ELSE Respond(c, 200, Msg("weekly_schedule_retrieved", "", 0, ""))
    /\ UNCHANGED <<shared, existing, interfered, wrote, history>>

\* ScheduleStore.get_day_schedule
get_day_schedule(c) ==
    /\ pc[c] = "get_day_schedule"
    /\ LET h == HOURS[idx[c]]
       IN view' = [view EXCEPT ![c] =
                      Append(@, SlotRecord(cur_day[c], h, get_slot(schedule, cur_day[c], h)))]
    /\ IF idx[c] < Len(HOURS)
       THEN Goto(c, pc[c], idx[c] + 1)
       ELSE Respond(c, 200, Msg("schedule_for_day_retrieved", cur_day[c], 0, ""))
    /\ UNCHANGED <<shared, existing, interfered, wrote, history>>

\* get_user_reservations without the comparison with username: every
\* reserved slot is listed
get_user_reservations_of_anyone(c) ==
    /\ pc[c] = "get_user_reservations"
    /\ LET d == SlotDay(idx[c])
           h == SlotHour(idx[c])
       IN view' = [view EXCEPT ![c] =
                      IF get_slot(schedule, d, h) # None
                      THEN Append(@, SlotRecord(d, h, username[c]))
                      ELSE @]
    /\ IF idx[c] < Len(DAYS) * Len(HOURS)
       THEN Goto(c, pc[c], idx[c] + 1)
       ELSE Respond(c, 200, Msg("found_reservations", "", 0, ""))
    /\ UNCHANGED <<shared, existing, interfered, wrote, history>>

\* ScheduleStore.get_user_reservations
get_user_reservations(c) ==
    /\ pc[c] = "get_user_reservations"
    /\ LET d == SlotDay(idx[c])
           h == SlotHour(idx[c])
       IN view' = [view EXCEPT ![c] =
                      IF get_slot(schedule, d, h) = username[c]
                      THEN Append(@, SlotRecord(d, h, username[c]))
                      ELSE @]
    /\ IF idx[c] < Len(DAYS) * Len(HOURS)
       THEN Goto(c, pc[c], idx[c] + 1)
       ELSE Respond(c, 200, Msg("found_reservations", "", 0, ""))
    /\ UNCHANGED <<shared, existing, interfered, wrote, history>>

(***************************************************************************)
(* What the clients send.                                                  *)
(***************************************************************************)
InvalidDay == "XYZ"

Credentials == {Bearer(TOKEN_NAMES[i]) : i \in 1..MaxTokens}

LoginRequests ==
    {Request("POST", <<"login">>, "", NoAuth, LoginBody(u, PREDEFINED_USERS[u])) : u \in Users}

ResetRequests == {Request("POST", <<"reset">>, "", NoAuth, NoBody)}

ReserveRequests(A, D, H) ==
    {Request("POST", <<"reservations">>, "", a, ReservationBody(d, h)) :
        a \in A, d \in D, h \in H}

CancelRequests(A, D) ==
    {Request("DELETE", <<"reservations">>, d, a, NoBody) : a \in A, d \in D}

\* every step of make_reservation, cancel_reservation and the reset
Reserving(c) ==
    \/ get_user_reservation_for_day(c)
    \/ make_reservation_available(c)
    \/ make_reservation_occupant(c)
    \/ reserve_slot_available(c)
    \/ reserve_slot(c)
    \/ save_open(c)
    \/ save_dump(c)

Cancelling(c) ==
    \/ cancel_reservation_available(c)
    \/ cancel_reservation(c)

Resetting(c) ==
    \/ initialize_schedule(c)
    \/ clear_all_sessions(c)

(***************************************************************************)
(* Spec: logins, reservations, cancellations and resets over NumConns      *)
(* concurrent connections, each connection slot reused after its close.    *)
(* Reservations aim at every slot of the first day and the first hour of   *)
(* the other days, at a day and at hours outside the grid.                 *)
(***************************************************************************)
TargetSlots == {<<d, h>> \in Days \X Hours : d = DAYS[1] \/ h = HOURS[1]}

OffGridSlots ==
    {<<InvalidDay, HOURS[1]>>, <<InvalidDay, FirstHour - 1>>,
     <<DAYS[1], FirstHour - 1>>, <<DAYS[1], FirstHour + NumHours>>}

SlotRequests(A, S) ==
    {Request("POST", <<"reservations">>, "", a, ReservationBody(s[1], s[2])) : a \in A, s \in S}

SpecRequests ==
    LoginRequests \cup ResetRequests
    \cup SlotRequests(Credentials, TargetSlots \cup OffGridSlots)
    \cup CancelRequests(Credentials, Days \cup {InvalidDay})

Next ==
    \E c \in Conns :
        \/ handle_client(c, SpecRequests)
        \/ Reserving(c)
        \/ Cancelling(c)
        \/ Resetting(c)
        \/ close(c)

Spec == Init /\ [][Next]_vars

(***************************************************************************)
(* SpecPair: every user is logged in (the state after NumUsers logins on   *)
(* a fresh server) and each connection carries one request, a reservation  *)
(* or a cancellation on the first day; the connections stay open, so their *)
(* requests and responses can be compared when all have been answered.     *)
(***************************************************************************)
InitLoggedIn ==
    /\ schedule = EmptySchedule
    /\ active_sessions = [t \in Minted(NumUsers) |->
                             USER_NAMES[CHOOSE i \in 1..NumUsers : uuid4(i) = t]]
    /\ minted = NumUsers
    /\ file = NoFile
    /\ pc = [c \in Conns |-> "idle"]
    /\ req = [c \in Conns |-> NoRequest]
    /\ username = [c \in Conns |-> None]
    /\ cur_day = [c \in Conns |-> ""]
    /\ cur_hour = [c \in Conns |-> 0]
    /\ idx = [c \in Conns |-> 1]
    /\ existing = [c \in Conns |-> <<>>]
    /\ view = [c \in Conns |-> <<>>]
    /\ status = [c \in Conns |-> NoResponse]
    /\ message = [c \in Conns |-> NoMsg]
    /\ interfered = [c \in Conns |-> FALSE]
    /\ wrote = [c \in Conns |-> FALSE]
    /\ peer = [c \in Conns |-> "open"]
    /\ listening = TRUE
    /\ history = {}

PairRequests ==
    SlotRequests(Credentials, {DAYS[1]} \X Hours) \cup CancelRequests(Credentials, {DAYS[1]})

NextPair ==
    \E c \in Conns :
        \/ handle_client(c, PairRequests)
        \/ Reserving(c)
        \/ Cancelling(c)

SpecPair == InitLoggedIn /\ [][NextPair]_vars

(***************************************************************************)
(* SpecRoutes: every route of route_request, with and without a bearer     *)
(* token: no Authorization header, another scheme, an empty token, a token *)
(* nobody minted, and the minted tokens (valid, or cleared by a reset).    *)
(***************************************************************************)
Viewing(c) ==
    \/ get_weekly_schedule(c)
    \/ get_day_schedule(c)
    \/ get_user_reservations(c)

Headers ==
    {NoAuth, [scheme |-> "Basic", cred |-> uuid4(1)], Bearer(""), Bearer("forged")}
    \cup Credentials

RouteRequests ==
    LoginRequests \cup ResetRequests
    \cup {Request("GET", <<"schedule">>, "", a, NoBody) : a \in Headers}
    \cup {Request("GET", <<"schedule", "day">>, d, a, NoBody) :
            a \in Headers, d \in {DAYS[1], LOWER_DAY_NAMES[1], InvalidDay, ""}}
    \cup {Request("GET", <<"reservations">>, "", a, NoBody) : a \in Headers}
    \cup SlotRequests(Headers, {<<DAYS[1], HOURS[1]>>})
    \cup {Request("POST", <<"reservations">>, "", a, b) :
            a \in Headers, b \in {NoBody, BadHourBody(InvalidDay)}}
    \cup CancelRequests(Headers, {DAYS[1]})
    \cup {Request("DELETE", <<"reservations", DAYS[1]>>, "", a, NoBody) : a \in Headers}
    \cup {Request("GET", <<"logout">>, "", a, NoBody) : a \in Headers}
    \cup {Request("DELETE", <<"schedule">>, "", a, NoBody) : a \in Headers}

NextRoutes ==
    \E c \in Conns :
        \/ handle_client(c, RouteRequests)
        \/ Reserving(c)
        \/ Cancelling(c)
        \/ Resetting(c)
        \/ Viewing(c)
        \/ close(c)

SpecRoutes == Init /\ [][NextRoutes]_vars

(***************************************************************************)
(* SpecStore: the grid and its snapshot file.  Every user is logged in;    *)
(* the server may be stopped when no connection is open and started again  *)
(* on the file it left.  SpecSave: a save may fail.                        *)
(***************************************************************************)
\* main() run again: TennisCourtServer.__init__ builds a ScheduleStore on the
\* file and an AuthenticationManager with no session
restart ==
    /\ \A c \in Conns : pc[c] = "idle"
    /\ schedule' = load_from_file(file)
    /\ active_sessions' = NoSessions
    /\ history' = IF history = {} THEN {} ELSE history \cup {load_from_file(file)}
    /\ UNCHANGED <<minted, file, locals, interfered, wrote, peer, listening>>

StoreRequests ==
    ResetRequests
    \cup SlotRequests(Credentials, Days \X Hours)
    \cup CancelRequests(Credentials, {DAYS[1]})

NextStore ==
    \/ restart
    \/ \E c \in Conns :
        \/ handle_client(c, StoreRequests)
        \/ Reserving(c)
        \/ Cancelling(c)
        \/ Resetting(c)
        \/ close(c)

SpecStore == InitLoggedIn /\ [][NextStore]_vars

SaveRequests ==
    ResetRequests
    \cup SlotRequests(Credentials, {DAYS[1]} \X Hours)
    \cup CancelRequests(Credentials, {DAYS[1]})

NextSave ==
    \E c \in Conns :
        \/ handle_client(c, SaveRequests)
        \/ Reserving(c)
        \/ Cancelling(c)
        \/ Resetting(c)
        \/ save_fails(c)
        \/ close(c)

SpecSave == InitLoggedIn /\ [][NextSave]_vars

(***************************************************************************)
(* SpecSnap: as SpecStore without the restart, with the grids that stood   *)
(* after a completed mutation recorded in history: reservations of the     *)
(* first hour of each day, and resets.                                     *)
(***************************************************************************)
InitSnap ==
    /\ schedule = EmptySchedule
    /\ active_sessions = [t \in Minted(NumUsers) |->
                             USER_NAMES[CHOOSE i \in 1..NumUsers : uuid4(i) = t]]
    /\ minted = NumUsers
    /\ file = NoFile
    /\ pc = [c \in Conns |-> "idle"]
    /\ req = [c \in Conns |-> NoRequest]
    /\ username = [c \in Conns |-> None]
    /\ cur_day = [c \in Conns |-> ""]
    /\ cur_hour = [c \in Conns |-> 0]
    /\ idx = [c \in Conns |-> 1]
    /\ existing = [c \in Conns |-> <<>>]
    /\ view = [c \in Conns |-> <<>>]
    /\ status = [c \in Conns |-> NoResponse]
    /\ message = [c \in Conns |-> NoMsg]
    /\ interfered = [c \in Conns |-> FALSE]
    /\ wrote = [c \in Conns |-> FALSE]
    /\ peer = [c \in Conns |-> "open"]
    /\ listening = TRUE
    /\ history = {EmptySchedule}

SnapRequests ==
    ResetRequests \cup SlotRequests(Credentials, Days \X {HOURS[1]})

NextSnap ==
    \E c \in Conns :
        \/ handle_client(c, SnapRequests)
        \/ Reserving(c)
        \/ Resetting(c)
        \/ close(c)

SpecSnap == InitSnap /\ [][NextSnap]_vars

(***************************************************************************)
(* SpecFaults: the connections that go wrong.  Every user is logged in.    *)
(* A client sends nothing and closes, resets the connection before or      *)
(* while its request is handled, sends bytes that are no HTTP request, or  *)
(* a JSON body that is no object; others reserve and cancel the first slot *)
(* meanwhile.  SpecFaultsLive adds that the thread of a connection that    *)
(* can take a step eventually takes one.                                   *)
(***************************************************************************)
FaultRequests ==
    {EmptyRead, RecvRaises, Malformed("GET", <<"schedule">>)}
    \cup {Request("POST", <<"login">>, "", NoAuth, ScalarBody)}
    \cup {Request("POST", <<"reservations">>, "", a, ScalarBody) : a \in Credentials}
    \cup SlotRequests(Credentials, {<<DAYS[1], HOURS[1]>>})
    \cup CancelRequests(Credentials, {DAYS[1]})

\* the steps of the thread that handles connection c
Handler(c) ==
    \/ Reserving(c)
    \/ Cancelling(c)
    \/ internal_server_error(c)
    \/ close(c)

NextFaults ==
    \E c \in Conns :
        \/ handle_client(c, FaultRequests)
        \/ peer_resets(c)
        \/ Handler(c)

SpecFaults == InitLoggedIn /\ [][NextFaults]_vars

SpecFaultsLive == SpecFaults /\ \A c \in Conns : WF_vars(Handler(c))

(***************************************************************************)
(* SpecRejects: the requests the server turns down, among a few it serves. *)
(* Every user is logged in.  Clients send a reset, a login and a           *)
(* reservation whose request line has one piece too few or too many or     *)
(* whose bytes are not UTF-8, next to the same requests well formed, and   *)
(* cancellations that name a day of the grid, a day outside it, or no day. *)
(***************************************************************************)
NamedRequests ==
    ResetRequests
    \cup {Request("POST", <<"login">>, "", NoAuth,
                  LoginBody(USER_NAMES[1], PREDEFINED_USERS[USER_NAMES[1]]))}
    \cup SlotRequests(Credentials, {<<DAYS[1], HOURS[1]>>})

RejectRequests ==
    {WithParts(r, n) : r \in NamedRequests, n \in {2, 3, 4}}
    \cup {Undecodable(r) : r \in NamedRequests}
    \cup CancelRequests(Credentials, {DAYS[1], InvalidDay, ""})
    \cup {Request("DELETE", <<"reservations", d>>, "", a, NoBody) :
            a \in Credentials, d \in {LOWER_DAY_NAMES[1], InvalidDay, ""}}

NextRejects ==
    \E c \in Conns :
        \/ handle_client(c, RejectRequests)
        \/ Reserving(c)
        \/ Cancelling(c)
        \/ Resetting(c)
        \/ close(c)

SpecRejects == InitLoggedIn /\ [][NextRejects]_vars

(***************************************************************************)
(* SpecLogin: the session store from a fresh server.  Clients log in with  *)
(* every pairing of a user name (one of the table, one unknown) with a     *)
(* password (each user's, one nobody has), reset the server, and send an   *)
(* authenticated request under every token a login may have handed out.    *)
(***************************************************************************)
UnknownUser == "user0"

WrongPassword == "0"

LoginAttempts ==
    {Request("POST", <<"login">>, "", NoAuth, LoginBody(u, p)) :
        u \in Users \cup {UnknownUser},
        p \in Range(USER_PASSWORDS) \cup {WrongPassword}}

LoginSpecRequests ==
    LoginAttempts \cup ResetRequests
    \cup {Request("GET", <<"logout">>, "", a, NoBody) : a \in Credentials}
    \cup SlotRequests(Credentials, {<<DAYS[1], HOURS[1]>>})

NextLogin ==
    \E c \in Conns :
        \/ handle_client(c, LoginSpecRequests)
        \/ Reserving(c)
        \/ Resetting(c)
        \/ close(c)

SpecLogin == Init /\ [][NextLogin]_vars

(***************************************************************************)
(* SpecLoad: the server is started on a snapshot file it may not have      *)
(* written itself: no file, a file that is no JSON, a snapshot of its own, *)
(* a JSON object with keys that are no day and no hour, with days or hours *)
(* missing, or with a number where the object of a day is expected.  Users *)
(* then log in, reserve and cancel.                                        *)
(***************************************************************************)
ForeignDay == "XYZ"

ForeignHours == {"8", "09", "23"}

\* the object of a day in which u holds every key
DayObject(K, u) == [k \in K |-> json_value(u)]

ModelHourKeys == {json_key(h) : h \in Hours}

StartFiles ==
    {NoFile, Truncated, Written(EmptySchedule),
     Written([EmptySchedule EXCEPT ![DAYS[1]][HOURS[1]] = USER_NAMES[1]]),
     \* keys outside DAYS and HOURS beside the known ones
     Foreign([d \in Days \cup {ForeignDay} |->
                 DayObject(ModelHourKeys \cup ForeignHours, USER_NAMES[1])], {}),
     \* the last day and the last hour missing
     Foreign([d \in Days \ {DAYS[NumDays]} |->
                 DayObject(ModelHourKeys \ {json_key(HOURS[NumHours])}, USER_NAMES[1])], {}),
     \* a number for the last day, an object for the days before it
     Foreign([d \in Days \ {DAYS[NumDays]} |-> DayObject(ModelHourKeys, USER_NAMES[1])],
             {DAYS[NumDays]}),
     \* a number for the first day, an object for the days after it
     Foreign([d \in Days \ {DAYS[1]} |-> DayObject(ModelHourKeys, USER_NAMES[1])],
             {DAYS[1]}),
     \* a number under a key that is no day
     Foreign([d \in Days |-> DayObject(ModelHourKeys, USER_NAMES[2])], {ForeignDay})}

\* before main() has run: the process is not up, the file is whatever is there
InitLoad ==
    /\ schedule = EmptySchedule
    /\ active_sessions = NoSessions
    /\ minted = 0
    /\ file \in StartFiles
    /\ pc = [c \in Conns |-> "idle"]
    /\ req = [c \in Conns |-> NoRequest]
    /\ username = [c \in Conns |-> None]
    /\ cur_day = [c \in Conns |-> ""]
    /\ cur_hour = [c \in Conns |-> 0]
    /\ idx = [c \in Conns |-> 1]
    /\ existing = [c \in Conns |-> <<>>]
    /\ view = [c \in Conns |-> <<>>]
    /\ status = [c \in Conns |-> NoResponse]
    /\ message = [c \in Conns |-> NoMsg]
    /\ interfered = [c \in Conns |-> FALSE]
    /\ wrote = [c \in Conns |-> FALSE]
    /\ peer = [c \in Conns |-> "open"]
    /\ listening = FALSE
    /\ history = {}

\* main(): TennisCourtServer.__init__ builds the ScheduleStore on the file and
\* an AuthenticationManager with no session; start() listens
startup ==
    /\ ~listening
    /\ \A c \in Conns : pc[c] = "idle"
    /\ schedule' = load_from_file(file)
    /\ active_sessions' = NoSessions
    /\ listening' = TRUE
    /\ UNCHANGED <<minted, file, locals, interfered, wrote, peer, history>>

LoadRequests ==
    LoginRequests
    \cup SlotRequests(Credentials, {<<DAYS[1], HOURS[1]>>})
    \cup CancelRequests(Credentials, {DAYS[1]})

NextLoad ==
    \/ startup
    \/ \E c \in Conns :
        \/ handle_client(c, LoadRequests)
        \/ Reserving(c)
        \/ Cancelling(c)
        \/ close(c)

SpecLoad == InitLoad /\ [][NextLoad]_vars

(***************************************************************************)
(* SpecSessions: the AuthenticationManager with its logout method called.  *)
(* No route of the server calls logout; here users log in over the wire    *)
(* and logout is called on the manager for any token, issued or not, live  *)
(* or already logged out.                                                  *)
(***************************************************************************)
SessionTokens == {TOKEN_NAMES[i] : i \in 1..MaxTokens}

\* auth_manager.logout(token)
logout_call(t) ==
    /\ listening
    /\ active_sessions' = logout(active_sessions, t)
    /\ UNCHANGED <<schedule, minted, file, locals, interfered, wrote, peer,
                   listening, history>>

NextSessions ==
    \/ \E t \in SessionTokens : logout_call(t)
    \/ \E c \in Conns :
        \/ handle_client(c, LoginRequests \cup SlotRequests(Credentials, {<<DAYS[1], HOURS[1]>>}))
        \/ Reserving(c)
        \/ close(c)

SpecSessions == Init /\ [][NextSessions]_vars

(***************************************************************************)
(* SpecResponses: a request for every kind of response the server builds,  *)
(* from a fresh server: logins that succeed and one that fails,            *)
(* reservations of the two slots of the first day and of a day that is no  *)
(* ASCII, with and without a token, a cancellation, the list of the        *)
(* caller's reservations, an unrouted request, bytes that are no request   *)
(* and a login whose body is no object.                                    *)
(***************************************************************************)
ResponseRequests ==
    LoginRequests
    \cup {Request("POST", <<"login">>, "", NoAuth, LoginBody(USER_NAMES[1], WrongPassword))}
    \cup {Request("POST", <<"login">>, "", NoAuth, ScalarBody)}
    \cup {Malformed("GET", <<"schedule">>)}
    \cup SlotRequests(Credentials, {<<DAYS[1], HOURS[1]>>, <<DAYS[1], HOURS[2]>>})
    \cup SlotRequests({NoAuth, Bearer(uuid4(1))}, {<<NonAsciiDay, HOURS[1]>>})
    \cup CancelRequests({Bearer(uuid4(1))}, {DAYS[1]})
    \cup {Request("GET", <<"reservations">>, "", Bearer(uuid4(1)), NoBody)}
    \cup {Request("GET", <<"logout">>, "", Bearer(uuid4(1)), NoBody)}

NextResponses ==
    \E c \in Conns :
        \/ handle_client(c, ResponseRequests)
        \/ Reserving(c)
        \/ Cancelling(c)
        \/ get_user_reservations(c)
        \/ internal_server_error(c)
        \/ close(c)

SpecResponses == Init /\ [][NextResponses]_vars

(***************************************************************************)
(* SpecViews: the three GET handlers beside reservations and               *)
(* cancellations.  Every user is logged in; clients reserve the first hour *)
(* of the first day and both hours of the last, cancel with the day in the *)
(* query, in the path, or in both, and the first user reads the week, the  *)
(* last day and the list of its own reservations.                          *)
(***************************************************************************)
ViewSlots == {<<DAYS[1], HOURS[1]>>, <<DAYS[NumDays], HOURS[1]>>, <<DAYS[NumDays], HOURS[2]>>}

ViewRequests ==
    SlotRequests(Credentials, ViewSlots)
    \cup CancelRequests(Credentials, {DAYS[1]})
    \cup {Request("DELETE", <<"reservations", p>>, q, a, NoBody) :
            a \in Credentials, p \in {DAYS[NumDays]}, q \in {"", DAYS[1]}}
    \cup {Request("GET", <<"schedule">>, "", Bearer(uuid4(1)), NoBody)}
    \cup {Request("GET", <<"schedule", "day">>, DAYS[NumDays], Bearer(uuid4(1)), NoBody)}
    \cup {Request("GET", <<"reservations">>, "", Bearer(uuid4(1)), NoBody)}

NextViews ==
    \E c \in Conns :
        \/ handle_client(c, ViewRequests)
        \/ Reserving(c)
        \/ Cancelling(c)
        \/ Viewing(c)
        \/ close(c)

SpecViews == InitLoggedIn /\ [][NextViews]_vars

(***************************************************************************)
(* Reading the state.                                                      *)
(***************************************************************************)
Done(c) == pc[c] = "done"

IsReserve(r) == r.raw = "ok" /\ r.method = "POST" /\ r.path = <<"reservations">>

IsCancel(r) == r.raw = "ok" /\ r.method = "DELETE" /\ starts_with_reservations(r.path)

IsReset(r) == r.raw = "ok" /\ r.method = "POST" /\ r.path = <<"reset">>

IsLogin(r) == r.raw = "ok" /\ r.method = "POST" /\ r.path = <<"login">>

\* the hours of day d that user u owns in grid g
OwnedHours(g, u, d) == {h \in Hours : g[d][h] = u}

(***************************************************************************)
(* C1: in every reachable state every user owns at most one slot on every  *)
(* day, also when one user reserves two hours of a day over two            *)
(* connections at once.                                                    *)
(***************************************************************************)
C1_OneReservationPerDay ==
    \A u \in Users, d \in Days : Cardinality(OwnedHours(schedule, u, d)) <= 1

(***************************************************************************)
(* A handler run alone: make_reservation and cancel_reservation from the   *)
(* first line to the return, on a grid g nobody else touches.              *)
(***************************************************************************)
Outcome(g, m, s) == [schedule |-> g, message |-> m, status |-> s]

\* get_user_reservation_for_day: the first hour of the day that u owns
first_owned(g, u, d) ==
    LET S == OwnedHours(g, u, d) IN
    IF S = {} THEN <<>> ELSE <<CHOOSE h \in S : \A k \in S : h <= k>>

make_reservation_alone(g, u, d, h) ==
    LET e == first_owned(g, u, d)
        have == Msg("already_have_a_reservation", d, IF e = <<>> THEN 0 ELSE e[1], "")
        taken == Msg("already_reserved_by", d, h, g[d][h])
        ok == Msg("reservation_successful", d, h, "")
    IN
    IF e # <<>> THEN Outcome(g, have, reservation_status(have))
    ELSE IF g[d][h] # None THEN Outcome(g, taken, reservation_status(taken))
    ELSE Outcome([g EXCEPT ![d][h] = u], ok, reservation_status(ok))

cancel_reservation_alone(g, u, d) ==
    LET e == first_owned(g, u, d)
        no == Msg("no_reservation", d, 0, "")
        ok == Msg("cancelled_reservation", d, IF e = <<>> THEN 0 ELSE e[1], "")
    IN
    IF e = <<>> THEN Outcome(g, no, cancel_status(no))
    ELSE Outcome([g EXCEPT ![d][e[1]] = None], ok, cancel_status(ok))

\* the request r of an authenticated client, handled alone on grid g
handled_alone(r, sessions, g) ==
    LET f == first_frame(r, sessions, 0) IN
    IF f.pc = "mr_existing" THEN make_reservation_alone(g, f.username, f.day, f.hour)
    ELSE IF f.pc = "cr_existing" THEN cancel_reservation_alone(g, f.username, f.day)
    ELSE Outcome(g, f.message, f.status)

\* the day and hour a reservation request names, as make_reservation sees them
TargetOf(r) == <<upper(r.body.day), r.body.hour>>

(***************************************************************************)
(* C2: when two handlers reserve the same vacant slot at once for two      *)
(* users who own nothing on that day, exactly one is answered 200 and the  *)
(* other 409 with "already reserved by" the winner.  Checked in SpecPair,  *)
(* where the grid starts empty and the two reservations are the only       *)
(* requests.                                                               *)
(***************************************************************************)
C2_ExactlyOneSuccess ==
    \A c1, c2 \in Conns :
        (/\ c1 # c2 /\ Done(c1) /\ Done(c2)
         /\ IsReserve(req[c1]) /\ IsReserve(req[c2])
         /\ TargetOf(req[c1]) = TargetOf(req[c2])
         /\ username[c1] # username[c2])
        => \E w, l \in {c1, c2} :
              /\ w # l
              /\ status[w] = 200
              /\ status[l] = 409
              /\ message[l] = Msg("already_reserved_by", cur_day[l], cur_hour[l], username[w])

(***************************************************************************)
(* C3: reserve and cancel are atomic with respect to one another: once     *)
(* every request has been answered, the responses and the grid are those   *)
(* of the same requests handled one after the other in some order.         *)
(* Checked in SpecPair, from the empty grid.                               *)
(***************************************************************************)
RECURSIVE Explains(_, _)
\* some order of the requests of the connections in S, handled alone one after
\* the other from grid g, gives each its response and ends in the grid of the state
Explains(S, g) ==
    IF S = {} THEN g = schedule
    ELSE \E c \in S :
            LET o == handled_alone(req[c], active_sessions, g) IN
            /\ o.status = status[c]
            /\ o.message = message[c]
            /\ Explains(S \ {c}, o.schedule)

C3_Serializable ==
    (\A c \in Conns : ~InFlight(c)) => Explains({c \in Conns : Done(c)}, EmptySchedule)

(***************************************************************************)
(* Requests of an authenticated client that reach make_reservation.        *)
(***************************************************************************)
\* connection c carries a POST /reservations with a day and an integer hour
\* in its body, sent with a token route_request accepted
Reserves(c) ==
    /\ IsReserve(req[c])
    /\ req[c].body.shape = "reservation"
    /\ req[c].body.is_int
    /\ username[c] # None

ValidSlot(r) == is_valid_day(TargetOf(r)[1]) /\ is_valid_hour(TargetOf(r)[2])

\* the handler of c takes a step
Steps(c) == pc'[c] # pc[c] \/ idx'[c] # idx[c]

(***************************************************************************)
(* C4: a request other than POST /login and POST /reset, whatever its      *)
(* route, that has no Authorization header of the Bearer scheme or whose   *)
(* token is not in the session store when it is routed is answered 401 at  *)
(* once, and neither that step nor any later step of its connection        *)
(* changes the grid, the session store or the snapshot file.               *)
(***************************************************************************)
C4_Unauthenticated401 ==
    [][\A c \in Conns :
        /\ (/\ pc[c] = "idle" /\ pc'[c] # "idle"
            /\ req'[c].raw = "ok"
            /\ ~IsLogin(req'[c]) /\ ~IsReset(req'[c])
            /\ \/ req'[c].auth.scheme # "Bearer"
               \/ req'[c].auth.cred \notin DOMAIN active_sessions)
           => /\ pc'[c] = "done"
              /\ status'[c] = 401
              /\ ~build_success(status'[c])
              /\ UNCHANGED <<schedule, active_sessions, file>>
        /\ (Done(c) /\ status[c] = 401 /\ Steps(c))
           => /\ pc'[c] = "idle"
              /\ UNCHANGED <<schedule, active_sessions, file>>
      ]_vars

\* a token cleared by a reset is refused on a path that matches no route,
\* while another user is logged in and holds a slot
C4_Witness ==
    \E c \in Conns :
        /\ Done(c)
        /\ status[c] = 401
        /\ message[c].kind = "invalid_or_expired_token"
        /\ req[c].path = <<"logout">>
        /\ req[c].auth.cred \in Minted(minted)
        /\ active_sessions # NoSessions
        /\ schedule # EmptySchedule

(***************************************************************************)
(* C5: a reservation or a cancellation sent with the token of user u       *)
(* touches only slots of u: every slot its handler changes was vacant or   *)
(* owned by u before the change and is vacant or owned by u after it.      *)
(***************************************************************************)
C5_OnlyOwnSlots ==
    [][\A c \in Conns :
        (Steps(c) /\ (IsReserve(req[c]) \/ IsCancel(req[c])))
        => \A d \in Days, h \in Hours :
              schedule'[d][h] # schedule[d][h]
              => /\ schedule[d][h] \in {None, username[c]}
                 /\ schedule'[d][h] \in {None, username[c]}
      ]_vars

(***************************************************************************)
(* C6: when the handler of a cancellation by u sets a slot to vacant, the  *)
(* slot is not owned by another user at that moment, whatever the other    *)
(* connections reserved, cancelled or reset in the meantime; no other slot *)
(* changes.                                                                *)
(***************************************************************************)
C6_CancelVacatesOwnSlot ==
    [][\A c \in Conns :
        (pc[c] = "cs_write" /\ pc'[c] # "cs_write")
        => /\ schedule[cur_day[c]][existing[c][1]] \notin Users \ {username[c]}
           /\ schedule' = [schedule EXCEPT ![cur_day[c]][existing[c][1]] = None]
      ]_vars

(***************************************************************************)
(* C7: a reservation is answered by the first check that fails, in the     *)
(* order invalid day, invalid hour, caller already owns a slot of the day, *)
(* slot taken, the last two judged on the grid the request met (no other   *)
(* connection changed the grid while it was handled); the owner is written *)
(* only when all four pass; a reservation that is refused has written      *)
(* neither the grid nor the snapshot file, under every interleaving.       *)
(***************************************************************************)
\* status and kind of message of the first check of reserve(u, d, h) that
\* fails on grid g
FirstFailing(g, u, d, h) ==
    IF ~is_valid_day(d) THEN <<400, "invalid_day">>
    ELSE IF ~is_valid_hour(h) THEN <<400, "invalid_hour">>
    ELSE IF OwnedHours(g, u, d) # {} THEN <<403, "already_have_a_reservation">>
    ELSE IF g[d][h] # None THEN <<409, "already_reserved_by">>
    ELSE <<200, "reservation_successful">>

C7_CheckOrder ==
    [][\A c \in Conns :
        LET u == username'[c]
            d == TargetOf(req'[c])[1]
            h == TargetOf(req'[c])[2]
        IN
        \* the response is sent
        /\ (pc[c] # "done" /\ pc'[c] = "done" /\ Reserves(c)')
           => /\ status'[c] # 200 => ~wrote'[c] /\ schedule' = schedule /\ file' = file
              /\ (status'[c] # 200 /\ ~interfered'[c])
                 => /\ <<status'[c], message'[c].kind>> = FirstFailing(schedule', u, d, h)
                    /\ FirstFailing(schedule', u, d, h)[1] # 200
              /\ (status'[c] = 200 /\ ~interfered'[c])
                 => /\ message'[c].kind = "reservation_successful"
                    /\ wrote'[c]
                    /\ schedule'[d][h] = u
        \* the owner is written
        /\ (pc[c] = "rs_write" /\ pc'[c] # "rs_write")
           => /\ schedule' = [schedule EXCEPT ![d][h] = u]
              /\ ~interfered[c] => FirstFailing(schedule, u, d, h)[1] = 200
      ]_vars

\* a user who owns an hour of the day asks for an hour outside the grid and
\* is told the hour is invalid
C7_Witness ==
    \E c \in Conns :
        /\ Done(c) /\ Reserves(c) /\ ~interfered[c]
        /\ status[c] = 400
        /\ message[c].kind = "invalid_hour"
        /\ OwnedHours(schedule, username[c], TargetOf(req[c])[1]) # {}

(***************************************************************************)
(* C8: a reservation with a valid day and hour whose slot is owned by      *)
(* another user while the request is handled is answered 409 with the      *)
(* message naming that owner, and its handler has written nothing.         *)
(***************************************************************************)
\* the slot connection c asks for is owned by somebody else, and no other
\* connection changed the grid since c was accepted
TargetOwnedByOther(c) ==
    /\ Done(c) /\ Reserves(c) /\ ValidSlot(req[c])
    /\ ~interfered[c]
    /\ schedule[cur_day[c]][cur_hour[c]] \notin {None, username[c]}

Answered409(c) ==
    /\ status[c] = 409
    /\ message[c] = Msg("already_reserved_by", cur_day[c], cur_hour[c],
                        schedule[cur_day[c]][cur_hour[c]])
    /\ ~wrote[c]

C8_TakenIs409 == \A c \in Conns : TargetOwnedByOther(c) => Answered409(c)

\* C8 as amended: the same, for a caller who owns no slot on that day
C8_TakenIs409_NoneOwned ==
    \A c \in Conns :
        (TargetOwnedByOther(c) /\ OwnedHours(schedule, username[c], cur_day[c]) = {})
        => Answered409(c)

\* the caller owns a slot on another day and is refused a slot of somebody else
C8_Witness ==
    \E c \in Conns :
        /\ TargetOwnedByOther(c)
        /\ status[c] = 409
        /\ OwnedHours(schedule, username[c], cur_day[c]) = {}
        /\ \E d \in Days : OwnedHours(schedule, username[c], d) # {}

(***************************************************************************)
(* C9: a reservation with a valid day and hour by a user who owns a slot   *)
(* on that day while the request is handled is answered 403, the message   *)
(* naming the day and an hour the user owns on it, whoever owns the slot   *)
(* asked for; its handler has written nothing.                             *)
(***************************************************************************)
\* the hours of the day the caller owned before its own write, if it wrote
HeldBefore(c) ==
    OwnedHours(schedule, username[c], cur_day[c])
        \ (IF status[c] = 200 THEN {cur_hour[c]} ELSE {})

C9_AlreadyBookedIs403 ==
    \A c \in Conns :
        (/\ Done(c) /\ Reserves(c) /\ ValidSlot(req[c])
         /\ ~interfered[c]
         /\ HeldBefore(c) # {})
        => /\ status[c] = 403
           /\ message[c].kind = "already_have_a_reservation"
           /\ message[c].day = cur_day[c]
           /\ message[c].hour \in OwnedHours(schedule, username[c], cur_day[c])
           /\ ~wrote[c]

\* the slot asked for is owned by another user, the caller owns another hour
C9_Witness ==
    \E c \in Conns :
        /\ Done(c) /\ Reserves(c) /\ ~interfered[c]
        /\ status[c] = 403
        /\ message[c].hour # cur_hour[c]
        /\ schedule[cur_day[c]][cur_hour[c]] \notin {None, username[c]}

(***************************************************************************)
(* C10: when POST /reset is answered 200 every slot of the grid is vacant  *)
(* and no token minted so far is in the session store; a token that has    *)
(* left the session store never returns to it.                             *)
(***************************************************************************)
C10_ResetWipes ==
    [][/\ \A c \in Conns :
            (pc[c] = "clear_all_sessions" /\ pc'[c] = "done")
            => /\ status'[c] = 200
               /\ \A d \in Days, h \in Hours : schedule'[d][h] = None
               /\ \A t \in Minted(minted') : validate_token(active_sessions', t) = None
       /\ \A t \in Minted(minted) :
            validate_token(active_sessions, t) = None
            => validate_token(active_sessions', t) = None
      ]_vars

(***************************************************************************)
(* C11.  Every snapshot ever written is the complete grid as it stood      *)
(* after some completed mutation, never a grid that a reset had replaced   *)
(* in part; and when no handler is in flight (no write fails in SpecSnap)  *)
(* a store started on the file holds the grid the server holds.            *)
(***************************************************************************)
C11_SnapshotIsCompletedGrid ==
    /\ file.state = "written" => \E g \in history : file.content = json_dump(g)
    /\ (\A c \in Conns : ~InFlight(c)) => load_from_file(file) = schedule

(***************************************************************************)
(* C12.  A reservation, a cancellation or a reset that succeeds has        *)
(* written the whole grid to the file before its 200: the 200 of a         *)
(* reservation or cancellation is sent by the step that writes the file,   *)
(* a reset reaches clear_all_sessions and its 200 only by that step, the   *)
(* file written is the dump of the whole grid, and a store started on it   *)
(* holds the operation's own mutation (read for a handler whose grid no    *)
(* other connection changed meanwhile).  An operation answered with a      *)
(* failure has written neither the grid nor the file.  Checked where no    *)
(* write to the file fails.                                                *)
(***************************************************************************)
Answers(c) == pc[c] # "done" /\ pc'[c] = "done"

SaveFailed(c) ==
    \/ pc[c] \in {"rs_open", "cs_open", "reset_open"}
          /\ pc'[c] \notin {"rs_open", "cs_open", "reset_open", "rs_dump", "cs_dump", "reset_dump"}
    \/ pc[c] \in {"rs_dump", "cs_dump", "reset_dump"} /\ pc'[c] # pc[c] /\ file' = file

C13_FailedSaveStillSucceeds ==
    [][\A c \in Conns :
         /\ SaveFailed(c)
            => /\ schedule' = schedule
               /\ IsReserve(req[c])
                  => /\ pc'[c] = "done" /\ status'[c] = 200
                     /\ message'[c].kind = "reservation_successful"
                     /\ ~interfered[c] => schedule'[cur_day[c]][cur_hour[c]] = username[c]
               /\ IsCancel(req[c])
                  => /\ pc'[c] = "done" /\ status'[c] = 200
                     /\ message'[c].kind = "cancelled_reservation"
                     /\ ~interfered[c] => schedule'[cur_day[c]][existing[c][1]] = None
               /\ IsReset(req[c])
                  => /\ pc'[c] = "clear_all_sessions"
                     /\ ~interfered[c] => schedule' = EmptySchedule
         /\ Answers(c) /\ IsReset(req[c]) => status'[c] = 200
         /\ status'[c] # 500
      ]_vars

C13_Witness ==
    \E c \in Conns :
        /\ Done(c) /\ IsReserve(req[c]) /\ status[c] = 200 /\ ~interfered[c]
        /\ schedule[cur_day[c]][cur_hour[c]] = username[c]
        /\ file.state # "written"

(***************************************************************************)
(* C14.  Round trip: the file json.dump writes for a grid the server has   *)
(* reached, loaded by a store that starts on it, gives that grid back,     *)
(* owner or vacancy at every slot; and a server started again on a written *)
(* file holds the grid that file was written from.                         *)
(***************************************************************************)
Restarts == \A c \in Conns : pc[c] = "idle" /\ pc'[c] = "idle"

C14_RoundTrip ==
    /\ [](load_from_file(Written(schedule)) = schedule)
    /\ [][Restarts /\ file.state = "written" => json_dump(schedule') = file.content]_vars

C14_Witness ==
    /\ \A c \in Conns : pc[c] = "idle"
    /\ active_sessions = NoSessions
    /\ file = Written(schedule)
    /\ load_from_file(file) = schedule
    /\ \E d \in Days : schedule[d][HOURS[1]] \in Users /\ schedule[d][HOURS[2]] \in Users

(***************************************************************************)
(* C15.  Cancel idempotence.  A cancellation by a user who owns a slot on  *)
(* the day succeeds and vacates it; a second cancellation by the same user *)
(* for the same day, with no change to the grid in between, is answered    *)
(* 404 (no reservation) and changes nothing.  c2 follows c1 when c1 has    *)
(* been answered 200, nobody else has changed the grid since c1 was        *)
(* accepted, and nobody has changed it since c2 was accepted.              *)
(***************************************************************************)
CancelFollowsCancel(c1, c2) ==
    /\ c1 # c2
    /\ Done(c1) /\ IsCancel(req[c1]) /\ status[c1] = 200 /\ ~interfered[c1]
    /\ InFlight(c2) /\ IsCancel(req[c2]) /\ ~interfered[c2]
    /\ username[c2] = username[c1] /\ cur_day[c2] = cur_day[c1]

C15_CancelIdempotent ==
    [][\A c1, c2 \in Conns :
         /\ Answers(c2) /\ IsCancel(req[c2]) /\ ~interfered[c2]
            => /\ status'[c2] = 200 => schedule'[cur_day[c2]][existing[c2][1]] = None
               /\ status'[c2] = 404 => OwnedHours(schedule', username[c2], cur_day[c2]) = {}
         /\ CancelFollowsCancel(c1, c2) /\ Steps(c2)
            => /\ schedule' = schedule
               /\ Answers(c2)
                  => status'[c2] = 404 /\ message'[c2].kind = "no_reservation"
      ]_vars

(***************************************************************************)
(* C16.  After a cancellation by u has freed slot (d, h), a reservation of *)
(* (d, h) that follows it, by a user v who owns no slot on d, succeeds and *)
(* makes v the owner: until its write no step of the reservation answers   *)
(* (there is no failure), its one write to the grid puts v at (d, h), and  *)
(* after the write it is answered 200.  c2 follows c1 as in C15.           *)
(***************************************************************************)
ReserveFollowsCancel(c1, c2) ==
    /\ c1 # c2
    /\ Done(c1) /\ IsCancel(req[c1]) /\ status[c1] = 200 /\ ~interfered[c1]
    /\ InFlight(c2) /\ Reserves(c2) /\ ~interfered[c2]
    /\ cur_day[c2] = cur_day[c1] /\ cur_hour[c2] = existing[c1][1]
    /\ OwnedHours(schedule, username[c2], cur_day[c2]) = {}

C16_ReserveAfterCancel ==
    [][\A c1, c2 \in Conns :
         /\ ReserveFollowsCancel(c1, c2) /\ Steps(c2)
            => /\ ~Answers(c2)
               /\ schedule' # schedule
                  => schedule' = [schedule EXCEPT ![cur_day[c2]][cur_hour[c2]] = username[c2]]
         /\ Answers(c2) /\ Reserves(c2) /\ wrote[c2]
            => /\ status'[c2] = 200
               /\ ~interfered[c2] => schedule'[cur_day[c2]][cur_hour[c2]] = username[c2]
      ]_vars

C16_Witness ==
    \E c1, c2 \in Conns :
        /\ c1 # c2
        /\ Done(c1) /\ IsCancel(req[c1]) /\ status[c1] = 200
        /\ Done(c2) /\ Reserves(c2) /\ status[c2] = 200 /\ ~interfered[c2]
        /\ username[c2] # username[c1]
        /\ cur_day[c2] = cur_day[c1] /\ cur_hour[c2] = existing[c1][1]
        /\ schedule[cur_day[c2]][cur_hour[c2]] = username[c2]

(***************************************************************************)
(* C17.  A connection carries one request: the handler reads once, when    *)
(* the connection is accepted, and after its answer (or its return without *)
(* one) its only step is the close; and on every path, success, malformed  *)
(* request, empty read or exception, the connection is eventually closed   *)
(* and the handler has ended.  A connection counts from the return of its  *)
(* recv.                                                                   *)
(***************************************************************************)
C17_OneCycleThenClosed ==
    /\ [][\A c \in Conns :
             /\ req'[c] # req[c] => pc[c] = "idle" \/ pc'[c] = "idle"
             /\ Done(c) /\ Steps(c) => pc'[c] = "idle"
          ]_vars
    /\ \A c \in Conns : (pc[c] # "idle") ~> (pc[c] = "idle")

C17_Witness ==
    \E c1, c2 \in Conns :
        /\ c1 # c2
        /\ pc[c1] = "except" /\ req[c1].raw = "ok" /\ peer[c1] = "gone"
        /\ Done(c2) /\ req[c2].raw = "malformed" /\ status[c2] = 400

(***************************************************************************)
(* C18.  An exception in the handler of one connection stays in that       *)
(* handler: the step that raises and the step of the except clause leave   *)
(* the accept loop running and every other connection's handler where it   *)
(* was, with its request, its local variables and its response; the except *)
(* clause changes neither the grid, the sessions nor the file, so the      *)
(* other handlers go on to the responses they would have produced.         *)
(***************************************************************************)
SameHandler(x) ==
    /\ pc'[x] = pc[x] /\ req'[x] = req[x] /\ username'[x] = username[x]
    /\ cur_day'[x] = cur_day[x] /\ cur_hour'[x] = cur_hour[x] /\ idx'[x] = idx[x]
    /\ existing'[x] = existing[x] /\ view'[x] = view[x]
    /\ status'[x] = status[x] /\ message'[x] = message[x] /\ peer'[x] = peer[x]

C18_FailureStaysLocal ==
    [][\A c \in Conns :
         Steps(c) /\ (pc[c] = "except" \/ pc'[c] = "except")
         => /\ listening'
            /\ \A x \in Conns \ {c} : SameHandler(x)
            /\ pc[c] = "except" => UNCHANGED shared
      ]_vars

C18_Witness ==
    \E c1, c2 \in Conns :
        /\ c1 # c2
        /\ listening
        /\ Done(c1) /\ status[c1] = 500
        /\ Done(c2) /\ Reserves(c2) /\ status[c2] = 200 /\ ~interfered[c2]
        /\ schedule[cur_day[c2]][cur_hour[c2]] = username[c2]

(***************************************************************************)
(* C19.  A connection is sent at most one response, and the 500 of the     *)
(* except clause is sent only on a connection that has been sent nothing:  *)
(* a response, once sent, is followed only by the close, and an exception  *)
(* is raised only while nothing has been sent.                             *)
(***************************************************************************)
C19_AtMostOneResponse ==
    [][\A c \in Conns :
         /\ status'[c] # status[c] => status[c] = NoResponse \/ pc'[c] = "idle"
         /\ status[c] # NoResponse /\ Steps(c) => pc'[c] = "idle"
         /\ pc'[c] = "except" => status'[c] = NoResponse
         /\ status'[c] = 500 /\ status[c] # 500
            => pc[c] = "except" /\ status[c] = NoResponse
      ]_vars

C19_Witness ==
    \E c1, c2 \in Conns :
        /\ c1 # c2
        /\ Done(c1) /\ status[c1] = 500 /\ req[c1].body.shape = "scalar"
        /\ Done(c2) /\ status[c2] = NoResponse /\ req[c2].raw = "ok" /\ peer[c2] = "gone"

(***************************************************************************)
(* C20.  A read of zero bytes is a no-op: the handler sends no response,   *)
(* changes neither the grid, the sessions nor the file, and its only step  *)
(* is the close of the connection, which it eventually takes.              *)
(***************************************************************************)
C20_EmptyReadIsNoOp ==
    /\ [][\A c \in Conns :
             /\ pc[c] = "idle" /\ pc'[c] # "idle" /\ req'[c].raw = "empty"
                => /\ pc'[c] = "done" /\ status'[c] = NoResponse
                   /\ UNCHANGED <<schedule, active_sessions, file>>
             /\ pc[c] # "idle" /\ req[c].raw = "empty" /\ Steps(c)
                => /\ pc'[c] = "idle" /\ status[c] = NoResponse
                   /\ UNCHANGED <<schedule, active_sessions, file>>
          ]_vars
    /\ \A c \in Conns : (pc[c] # "idle" /\ req[c].raw = "empty") ~> (pc[c] = "idle")

C20_Witness ==
    \E c \in Conns :
        /\ Done(c) /\ req[c].raw = "empty" /\ status[c] = NoResponse /\ ~wrote[c]
        /\ schedule # EmptySchedule

(***************************************************************************)
(* C21: a request whose bytes do not decode as UTF-8, or whose request     *)
(* line does not split into exactly three pieces, is answered 400          *)
(* "Malformed HTTP request" in the step that read it, whatever method and  *)
(* path its request line names (POST /reset and POST /login included);     *)
(* that step leaves the grid, the session store and the snapshot file as   *)
(* they were, and the connection has no further step but its close.        *)
(***************************************************************************)
Unparsable(r) == r.raw = "malformed" \/ (r.raw = "ok" /\ (~r.utf8 \/ r.parts # 3))

C21_MalformedIs400 ==
    [][\A c \in Conns :
        /\ (pc[c] = "idle" /\ pc'[c] # "idle" /\ Unparsable(req'[c]))
            => /\ pc'[c] = "done"
               /\ status'[c] = 400
               /\ message'[c] = Msg("malformed_http_request", "", 0, "")
               /\ UNCHANGED <<schedule, active_sessions, minted, file>>
        /\ (Unparsable(req[c]) /\ Steps(c)) => pc'[c] = "idle"]_vars

\* a request line "POST /reset" without the version was answered 400 while the
\* grid holds a reservation and the sessions stand
C21_Witness ==
    \E c \in Conns :
        /\ Done(c) /\ status[c] = 400
        /\ req[c].method = "POST" /\ req[c].path = <<"reset">> /\ req[c].parts = 2
        /\ schedule # EmptySchedule
        /\ DOMAIN active_sessions # {}
        /\ \E o \in Conns : Done(o) /\ status[o] = 400 /\ ~req[o].utf8
                              /\ req[o].path = <<"login">>

(***************************************************************************)
(* C22: a POST /login, or a POST /reservations of a logged-in caller,      *)
(* whose body is no JSON, is JSON but no object, lacks a field or has an   *)
(* hour that is no integer is answered 400 in the step that read it,       *)
(* never 500, and the grid, the session store and the snapshot file stay   *)
(* as they were.                                                           *)
(***************************************************************************)
InvalidBody(r) ==
    \/ IsLogin(r) /\ r.body.shape # "login"
    \/ IsReserve(r) /\ (r.body.shape # "reservation" \/ ~r.body.is_int)

C22_BadBodyIs400 ==
    [][\A c \in Conns :
        (/\ pc[c] = "idle" /\ pc'[c] # "idle"
         /\ InvalidBody(req'[c])
         /\ IsReserve(req'[c])
               => validate_token(active_sessions, extract_token(req'[c])) # None)
        => /\ pc'[c] = "done"
           /\ status'[c] = 400
           /\ UNCHANGED <<schedule, active_sessions, minted, file>>]_vars

(***************************************************************************)
(* C23: a login with a username and a password hands out a token (status   *)
(* 200) exactly when the username is one of the user table and the         *)
(* password is the one stored for it; the token it hands out is then in    *)
(* the session store and validates to that username, and a request sent    *)
(* under a token is handled as the user the token was handed to.           *)
(***************************************************************************)
LoginStep(c) ==
    pc[c] = "idle" /\ pc'[c] # "idle" /\ IsLogin(req'[c]) /\ req'[c].body.shape = "login"

InTable(u, p) == \E i \in 1..NumUsers : USER_NAMES[i] = u /\ USER_PASSWORDS[i] = p

C23_AuthenticateIffTable ==
    [][\A c \in Conns :
        /\ LoginStep(c) =>
              LET u == req'[c].body.username
                  p == req'[c].body.password
                  token == message'[c].who
              IN
              /\ pc'[c] = "done"
              /\ status'[c] = 200 <=> InTable(u, p)
              /\ InTable(u, p) =>
                    /\ token \in DOMAIN active_sessions'
                    /\ validate_token(active_sessions', token) = u
                    /\ username'[c] = u
              /\ ~InTable(u, p) => token = ""
        /\ (pc[c] = "idle" /\ pc'[c] # "idle" /\ username'[c] # None /\ ~IsLogin(req'[c]))
              => /\ req'[c].auth.cred \in DOMAIN active_sessions
                 /\ username'[c] = active_sessions[req'[c].auth.cred]]_vars

\* user2 logged in and a request under the token it was handed is handled as
\* user2, while a login of user1 with user2's password has been refused
C23_Witness ==
    \E t \in DOMAIN active_sessions :
        /\ active_sessions[t] = USER_NAMES[2]
        /\ \E c \in Conns :
              /\ Done(c) /\ req[c].auth.cred = t /\ username[c] = USER_NAMES[2]
        /\ \E c \in Conns :
              /\ Done(c) /\ IsLogin(req[c]) /\ status[c] = 401
              /\ req[c].body.username = USER_NAMES[1]
              /\ req[c].body.password = USER_PASSWORDS[2]

(***************************************************************************)
(* C24: a login that fails is answered the same whether the username is    *)
(* unknown or the password is wrong: status 401 and the one message        *)
(* "Invalid username or password", which names neither; the step creates   *)
(* no session and leaves the session store as it was.  Any two failed      *)
(* logins therefore show the same status and the same message.             *)
(***************************************************************************)
FailedLogin(c) ==
    /\ Done(c) /\ IsLogin(req[c]) /\ req[c].body.shape = "login"
    /\ ~InTable(req[c].body.username, req[c].body.password)

C24_FailedLoginsAlike ==
    [][\A c \in Conns :
        /\ (LoginStep(c) /\ ~InTable(req'[c].body.username, req'[c].body.password))
            => /\ status'[c] = 401
               /\ message'[c] = Msg("invalid_username_or_password", "", 0, "")
               /\ UNCHANGED <<active_sessions, minted>>
        /\ \A o \in Conns :
              (FailedLogin(c) /\ FailedLogin(o))
              => status[c] = status[o] /\ message[c] = message[o]]_vars

\* an unknown username and a known username with a wrong password have both
\* been refused while a session stands
C24_Witness ==
    \E c, o \in Conns :
        /\ FailedLogin(c) /\ req[c].body.username = UnknownUser
        /\ FailedLogin(o) /\ req[o].body.username = USER_NAMES[1]
        /\ status[c] = 401 /\ status[o] = 401
        /\ DOMAIN active_sessions # {}

(***************************************************************************)
(* C25: the life of a session.  A token enters the session store only in   *)
(* the step of a successful login, which hands it out for the first time   *)
(* and stores the username that logged in; while it is in the store it     *)
(* keeps that username through every step of every connection, further     *)
(* logins included; it leaves the store only in the clear_all_sessions of  *)
(* a reset; and a token that was handed out and has left the store never   *)
(* enters it again.  logout, which no route calls, removes the token it is *)
(* given and leaves every other session as it is.                          *)
(***************************************************************************)
C25_SessionLifecycle ==
    [][/\ \A t \in Range(TOKEN_NAMES) :
            /\ (t \notin DOMAIN active_sessions /\ t \in DOMAIN active_sessions')
                => /\ t \notin Minted(minted)
                   /\ \E c \in Conns :
                         /\ LoginStep(c) /\ status'[c] = 200
                         /\ message'[c].who = t
                         /\ active_sessions'[t] = req'[c].body.username
            /\ (t \in DOMAIN active_sessions /\ t \in DOMAIN active_sessions')
                => active_sessions'[t] = active_sessions[t]
            /\ (t \in DOMAIN active_sessions /\ t \notin DOMAIN active_sessions')
                => \E c \in Conns :
                      /\ IsReset(req[c])
                      /\ pc[c] = "clear_all_sessions" /\ pc'[c] # pc[c]
            /\ (t \in Minted(minted) /\ t \notin DOMAIN active_sessions)
                => t \notin DOMAIN active_sessions'
       /\ \A t \in DOMAIN active_sessions :
            /\ validate_token(logout(active_sessions, t), t) = None
            /\ \A o \in DOMAIN active_sessions \ {t} :
                  validate_token(logout(active_sessions, t), o) = active_sessions[o]]_vars

\* the first token was handed out and cleared by a reset; after a later login
\* a request under the first token is answered 401 while the second stands
C25_Witness ==
    /\ uuid4(1) \notin DOMAIN active_sessions
    /\ uuid4(2) \in DOMAIN active_sessions
    /\ \E c \in Conns :
          Done(c) /\ req[c].auth.cred = uuid4(1) /\ status[c] = 401
    /\ \E c \in Conns :
          Done(c) /\ req[c].auth.cred = uuid4(2) /\ status[c] = 404

Routed(r) ==
    \/ r.method = "GET"
        /\ r.path \in {<<"schedule">>, <<"schedule", "day">>, <<"reservations">>}
    \/ IsReserve(r)
    \/ IsCancel(r)

C27_UnknownRouteIs404 ==
    [][\A c \in Conns :
        (/\ pc[c] = "idle" /\ pc'[c] # "idle"
         /\ req'[c].raw = "ok" /\ ~IsLogin(req'[c]) /\ ~IsReset(req'[c])
         /\ validate_token(active_sessions, extract_token(req'[c])) # None
         /\ ~Routed(req'[c]))
        => /\ pc'[c] = "done"
           /\ status'[c] = 404
           /\ message'[c].kind = "endpoint_not_found"
           /\ message'[c].method = req'[c].method
           /\ message'[c].path = req'[c].path
           /\ UNCHANGED <<schedule, active_sessions, minted, file>>]_vars

\* DELETE /schedule under a valid token was answered 404 naming DELETE and
\* /schedule, and the reservation the grid holds stands
C27_Witness ==
    \E c \in Conns :
        /\ Done(c) /\ status[c] = 404
        /\ req[c].method = "DELETE" /\ req[c].path = <<"schedule">>
        /\ message[c] = EndpointNotFound(req[c])
        /\ req[c].auth.cred \in DOMAIN active_sessions
        /\ schedule # EmptySchedule

(***************************************************************************)
(* C28: every response a connection has been sent, as build_response       *)
(* builds it from the status, the message and the data of the handler and  *)
(* to_bytes puts it on the wire, has the headers Content-Type:             *)
(* application/json and Connection: close and a Content-Length that is the *)
(* number of bytes of its body, and the success flag its body opens with   *)
(* is true exactly when the status is at least 200 and below 300.  The     *)
(* flag follows that rule for every status code build_response is given.   *)
(***************************************************************************)
\* the responses built with data: the login and the three GET handlers
DataOf(m) ==
    IF m.kind \in {"login_successful", "weekly_schedule_retrieved",
                   "schedule_for_day_retrieved", "found_reservations"}
    THEN <<100>> ELSE NoData

Sent(c) == to_bytes(build_response(status[c], DataOf(message[c]), message[c]))

StatusCodes == {100, 199, 200, 201, 204, 299, 300, 301, 400, 401, 403, 404, 409, 499, 500}

C28_ResponseEnvelope ==
    /\ \A c \in Conns :
          status[c] # NoResponse =>
            LET sent == Sent(c) IN
            /\ sent.headers["Content-Type"] = "application/json"
            /\ sent.headers["Connection"] = "close"
            /\ sent.headers["Content-Length"] = Len(sent.body)
            /\ sent.body[2] = 116 <=> status[c] \in 200..299
            /\ sent.body[2] = 102 <=> status[c] \notin 200..299
    /\ \A code \in StatusCodes :
          to_bytes(build_response(code, NoData, NoMsg)).body[2] = 116 <=> code \in 200..299

\* a reservation of a day that is no ASCII was answered 400 with the day
\* escaped in the body, next to a request answered 200 with data
C28_Witness ==
    \E c, o \in Conns :
        /\ Done(c) /\ status[c] = 400 /\ message[c].day = NonAsciiDay
        /\ Sent(c).headers["Content-Length"] = 11
        /\ Done(o) /\ status[o] = 200 /\ DataOf(message[o]) # NoData

(***************************************************************************)
(* C29: a reservation of a logged-in caller, with a day and an integer     *)
(* hour, passes validation exactly when the day (in either case) is one of *)
(* the days of the grid and the hour lies between the first and the last   *)
(* hour of the grid, both included.  A day outside the grid is answered    *)
(* 400 invalid day, a valid day with the hour before the first or after    *)
(* the last is answered 400 invalid hour, and neither changes the grid,    *)
(* the sessions or the file.  The hours of the program, range(9, 23), are  *)
(* the hours from 9 to 22: 8 and 23 are not among them, 9 and 22 are.      *)
(***************************************************************************)
DayOfGrid(d) == \E i \in 1..NumDays : d \in {DAY_NAMES[i], LOWER_DAY_NAMES[i]}

HourOfGrid(h) == FirstHour <= h /\ h <= FirstHour + NumHours - 1

\* the hours of the program are 9..22 and the grid of the model starts with them
HoursAre9To22 ==
    /\ \A h \in 0..30 : h \in Range(ALL_HOURS) <=> (9 <= h /\ h <= 22)
    /\ \A i \in 1..NumHours : i <= Len(ALL_HOURS) => HOURS[i] = ALL_HOURS[i]

C29_ValidationBounds ==
    [][/\ \A c \in Conns :
            (/\ pc[c] = "idle" /\ pc'[c] # "idle"
             /\ IsReserve(req'[c]) /\ ~InvalidBody(req'[c]) /\ ~Unparsable(req'[c])
             /\ validate_token(active_sessions, extract_token(req'[c])) # None)
            => LET d == req'[c].body.day
                   h == req'[c].body.hour
               IN
               /\ pc'[c] = "mr_existing" <=> (DayOfGrid(d) /\ HourOfGrid(h))
               /\ ~DayOfGrid(d)
                    => /\ pc'[c] = "done" /\ status'[c] = 400
                       /\ message'[c].kind = "invalid_day"
                       /\ UNCHANGED <<schedule, active_sessions, minted, file>>
               /\ (DayOfGrid(d) /\ ~HourOfGrid(h))
                    => /\ pc'[c] = "done" /\ status'[c] = 400
                       /\ message'[c].kind = "invalid_hour"
                       /\ UNCHANGED <<schedule, active_sessions, minted, file>>
       /\ HoursAre9To22]_vars

\* with a reservation standing: the hour before the first and the hour after
\* the last were answered 400 invalid hour
C29_Witness ==
    \E c, o \in Conns :
        /\ Done(c) /\ IsReserve(req[c]) /\ status[c] = 400
        /\ message[c].kind = "invalid_hour" /\ req[c].body.hour = FirstHour - 1
        /\ Done(o) /\ IsReserve(req[o]) /\ status[o] = 400
        /\ message[o].kind = "invalid_hour" /\ req[o].body.hour = FirstHour + NumHours
        /\ schedule[DAYS[1]][HOURS[NumHours]] # None

(***************************************************************************)
(* C30: a DELETE on /reservations of a logged-in caller is answered 400    *)
(* "missing day" when neither the query nor the path gives a day, 400      *)
(* "invalid day" when the day given is no day of the grid, both in the     *)
(* step that read the request, and 404 "no reservation" when the day is    *)
(* valid and the caller owns no slot on it (for a handler whose grid no    *)
(* other connection changes).  None of the three writes the grid or the    *)
(* snapshot file, and the sessions stay as they were.                      *)
(***************************************************************************)
DayGiven(r) == IF r.qday # "" THEN r.qday ELSE IF Len(r.path) >= 2 THEN r.path[2] ELSE ""

C30_CancelRejections ==
    [][\A c \in Conns :
        /\ (/\ pc[c] = "idle" /\ pc'[c] # "idle"
            /\ IsCancel(req'[c]) /\ ~Unparsable(req'[c])
            /\ validate_token(active_sessions, extract_token(req'[c])) # None)
           => LET d == DayGiven(req'[c]) IN
              /\ d = "" => /\ pc'[c] = "done" /\ status'[c] = 400
                           /\ message'[c].kind = "missing_day_parameter"
              /\ (d # "" /\ ~DayOfGrid(d))
                    => /\ pc'[c] = "done" /\ status'[c] = 400
                       /\ message'[c].kind = "invalid_day"
              /\ DayOfGrid(d) => pc'[c] # "done"
              /\ UNCHANGED <<schedule, active_sessions, minted, file>>
        /\ (/\ Answers(c) /\ IsCancel(req[c]) /\ username[c] # None
            /\ ~interfered[c] /\ ~wrote[c]
            /\ OwnedHours(schedule, username[c], cur_day[c]) = {})
           => /\ status'[c] = 404
              /\ message'[c].kind = "no_reservation"
              /\ UNCHANGED <<schedule, active_sessions, minted, file>>
        /\ (Done(c) /\ IsCancel(req[c]) /\ status[c] \in {400, 404}) => ~wrote[c]]_vars

\* user2 holds a slot of the first day; user1's cancellation of that day was
\* answered 404 and a cancellation that names no day 400
C30_Witness ==
    \E c, o \in Conns :
        /\ Done(c) /\ IsCancel(req[c]) /\ status[c] = 404 /\ ~interfered[c]
        /\ username[c] = USER_NAMES[1] /\ cur_day[c] = DAYS[1]
        /\ OwnedHours(schedule, USER_NAMES[2], DAYS[1]) # {}
        /\ Done(o) /\ IsCancel(req[o]) /\ status[o] = 400
        /\ message[o].kind = "missing_day_parameter"

(***************************************************************************)
(* C31: the list GET /reservations has returned to a caller, for a handler *)
(* whose grid no other connection changed while it scanned, holds exactly  *)
(* the slots the grid gives to the caller: every record is a slot the      *)
(* caller owns, every slot the caller owns has a record, and no slot has   *)
(* two records.                                                            *)
(***************************************************************************)
IsMyReservations(r) == r.raw = "ok" /\ r.method = "GET" /\ r.path = <<"reservations">>

OwnedSlots(g, u) == {s \in Days \X Hours : g[s[1]][s[2]] = u}

C31_ExactlyOwnSlots ==
    \A c \in Conns :
        (Done(c) /\ IsMyReservations(req[c]) /\ status[c] = 200 /\ ~interfered[c])
        => /\ {<<view[c][i].day, view[c][i].hour>> : i \in DOMAIN view[c]}
                = OwnedSlots(schedule, username[c])
           /\ Len(view[c]) = Cardinality(OwnedSlots(schedule, username[c]))
           /\ \A i \in DOMAIN view[c] : view[c][i].reserved_by = username[c]

\* the caller owns a slot on each of two days, another user owns a third slot,
\* and the list returned holds the caller's two
C31_Witness ==
    \E c \in Conns :
        /\ Done(c) /\ IsMyReservations(req[c]) /\ status[c] = 200 /\ ~interfered[c]
        /\ Len(view[c]) = 2
        /\ \E s \in Days \X Hours : schedule[s[1]][s[2]] \notin {None, username[c]}

(***************************************************************************)
(* C32: the day view answered to GET /schedule/day, for a handler whose    *)
(* grid no other connection changed while it read, has one record for      *)
(* every hour of the grid, in ascending order from the first hour, each    *)
(* with reserved_by the owner the grid gives the slot and available true   *)
(* exactly when there is none.  The week view answered to GET /schedule    *)
(* is, day after day in the order of DAYS, the day view of each day: one   *)
(* record for every slot of the grid.  The program has 7 days of 14 hours, *)
(* 98 slots.                                                               *)
(***************************************************************************)
IsDayView(r) == r.raw = "ok" /\ r.method = "GET" /\ r.path = <<"schedule", "day">>

IsWeekView(r) == r.raw = "ok" /\ r.method = "GET" /\ r.path = <<"schedule">>

\* the day view of day d in grid g, as the claim describes it
DayView(g, d) ==
    [i \in 1..NumHours |->
        [day |-> d, hour |-> FirstHour + i - 1,
         available |-> g[d][FirstHour + i - 1] = None,
         reserved_by |-> g[d][FirstHour + i - 1]]]

ProgramHas98Slots ==
    /\ Len(DAY_NAMES) = 7 /\ Len(ALL_HOURS) = 14
    /\ Len(DAY_NAMES) * Len(ALL_HOURS) = 98
    /\ \A i \in 1..14 : ALL_HOURS[i] = 8 + i

C32_ViewsDescribeGrid ==
    /\ ProgramHas98Slots
    /\ \A c \in Conns :
          (Done(c) /\ status[c] = 200 /\ ~interfered[c])
          => /\ IsDayView(req[c]) => view[c] = DayView(schedule, cur_day[c])
             /\ IsWeekView(req[c])
                  => /\ Len(view[c]) = NumDays * NumHours
                     /\ \A k \in 1..NumDays :
                           SubSeq(view[c], (k - 1) * NumHours + 1, k * NumHours)
                             = DayView(schedule, DAY_NAMES[k])

\* a week view and a day view were answered on a grid with reserved slots
C32_Witness ==
    \E c, o \in Conns :
        /\ Done(c) /\ IsWeekView(req[c]) /\ status[c] = 200 /\ ~interfered[c]
        /\ Done(o) /\ IsDayView(req[o]) /\ status[o] = 200 /\ ~interfered[o]
        /\ \E i \in DOMAIN view[o] : ~view[o][i].available
        /\ \E i \in DOMAIN view[o] : view[o][i].available

(***************************************************************************)
(* C33: for a DELETE of a logged-in caller on a path that begins with      *)
(* /reservations, the day the handler works on is the 'day' of the query   *)
(* when the query has a non-empty one, whatever the path says, and         *)
(* otherwise the segment of the path after /reservations/; the slot a      *)
(* cancellation vacates is a slot of that day, and a cancellation answered *)
(* 200 names that day.                                                     *)
(***************************************************************************)
C33_QueryDayDecides ==
    [][\A c \in Conns :
        /\ (/\ pc[c] = "idle" /\ pc'[c] = "cr_existing"
            /\ IsCancel(req'[c]) /\ ~Unparsable(req'[c]))
           => /\ req'[c].qday # "" => cur_day'[c] = upper(req'[c].qday)
              /\ (req'[c].qday = "" /\ Len(req'[c].path) >= 2)
                    => cur_day'[c] = upper(req'[c].path[2])
        /\ (IsCancel(req[c]) /\ schedule' # schedule /\ pc'[c] # pc[c])
           => LET target == IF req[c].qday # "" THEN upper(req[c].qday)
                            ELSE upper(req[c].path[2])
              IN
              \A d \in Days : d # target => schedule'[d] = schedule[d]
        /\ (IsCancel(req[c]) /\ Answers(c) /\ status'[c] = 200)
           => message'[c].day = (IF req[c].qday # "" THEN upper(req[c].qday)
                                 ELSE upper(req[c].path[2]))]_vars

\* DELETE /reservations/<last day>?day=<first day> was answered 200: the
\* caller's slot of the first day is vacant and its slot of the last day stands
C33_Witness ==
    \E c \in Conns :
        /\ Done(c) /\ IsCancel(req[c]) /\ status[c] = 200 /\ ~interfered[c]
        /\ req[c].qday = DAYS[1] /\ Len(req[c].path) = 2 /\ req[c].path[2] = DAYS[NumDays]
        /\ OwnedHours(schedule, username[c], DAYS[1]) = {}
        /\ OwnedHours(schedule, username[c], DAYS[NumDays]) # {}

\* what _load_from_file finds in the file for one slot of the grid
KnownValue(f, d, h) ==
    IF d \in DOMAIN f.content /\ json_key(h) \in DOMAIN f.content[d]
    THEN python_value(f.content[d][json_key(h)])
    ELSE None

\* the file is there, is a JSON object, and gives every day it names an object
LoadsCleanly(f) == f.state = "written" /\ f.scalars \cap Days = {}

StartsUp == ~listening /\ listening'

HasTheSlots(g) == DOMAIN g = Days /\ \A d \in Days : DOMAIN g[d] = Hours

\* C34: the server starts on a missing snapshot file with every slot of the
\* 7 x 14 grid vacant; a file that loads gives each slot of the grid the value
\* the file holds under that day and that hour and nothing else, so that keys
\* that are no day or no hour are ignored: the grid the server starts with, and
\* keeps, has exactly the slots of DAYS x HOURS.
C34_LoadKeepsTheSlots ==
    [][/\ StartsUp =>
            /\ ProgramHas98Slots
            /\ HasTheSlots(schedule')
            /\ file.state = "absent" => schedule' = EmptySchedule
            /\ LoadsCleanly(file) =>
                  \A d \in Days : \A h \in Hours :
                      schedule'[d][h] = KnownValue(file, d, h)
       /\ listening => HasTheSlots(schedule')]_vars

\* the server is up on a file with a day and hours it does not know, and has
\* taken the owner of the first slot from it
C34_Witness ==
    /\ listening
    /\ ForeignDay \in DOMAIN file.content
    /\ ForeignHours \subseteq DOMAIN file.content[DAYS[1]]
    /\ schedule[DAYS[1]][HOURS[1]] = USER_NAMES[1]
    /\ HasTheSlots(schedule)

\* _load_from_file lands in "except Exception": json.load raises, or the loop
\* does at a day whose value in the file is a number
LoadFails(f) == f.state = "partial" \/ (f.state = "written" /\ raising_days(f) # {})

\* C38: when loading the snapshot file at startup fails with an error other
\* than a missing file, the server starts with the empty schedule: every slot
\* vacant, no owner of the partly read file in the grid.
C38_FailedLoadStartsEmpty ==
    [][StartsUp /\ LoadFails(file) => schedule' = EmptySchedule]_vars

\* C35: logout(token) is idempotent.  On a token with a session it returns
\* true and removes that session and no other; called again on the same token
\* it returns false and leaves the session store as it is, as it does on any
\* token without a session; the sessions of the other tokens stay as they were.
C35_LogoutIdempotent ==
    \A t \in SessionTokens :
        LET once == logout(active_sessions, t)
            twice == logout(once, t)
        IN  /\ logout_returns(active_sessions, t) = (validate_token(active_sessions, t) # None)
            /\ logout_returns(active_sessions, t) =>
                  /\ DOMAIN once = DOMAIN active_sessions \ {t}
                  /\ validate_token(once, t) = None
            /\ ~logout_returns(active_sessions, t) => once = active_sessions
            /\ ~logout_returns(once, t)
            /\ twice = once
            /\ \A o \in DOMAIN active_sessions \ {t} :
                  o \in DOMAIN once /\ once[o] = active_sessions[o]

\* two tokens were issued, the first has been logged out and the second is
\* still in the store
C35_Witness ==
    /\ minted = 2
    /\ DOMAIN active_sessions = {uuid4(2)}
    /\ validate_token(active_sessions, uuid4(1)) = None
    /\ validate_token(active_sessions, uuid4(2)) # None

\* a reservation of slot (d, h) by u has been answered 200
Reported(u, d, h) ==
    \E c \in Conns :
        /\ Done(c) /\ IsReserve(req[c]) /\ status[c] = 200
        /\ username[c] = u /\ cur_day[c] = d /\ cur_hour[c] = h

\* C36: when a reservation of (d, h) is answered 200 to u, no other user owns
\* (d, h) (a reservation whose write another user's reservation replaced is
\* not answered 200), and a slot owned by u whose reservation was answered 200
\* changes owner only by a step of a cancellation by u on day d or of a reset,
\* under every interleaving of the handlers.
C36_ReportedOwnershipStays ==
    [][/\ \A c \in Conns :
            (Answers(c) /\ IsReserve(req[c]) /\ status'[c] = 200)
            => schedule'[cur_day[c]][cur_hour[c]] \notin Users \ {username[c]}
       /\ \A d \in Days, h \in Hours :
            (/\ schedule[d][h] \in Users
             /\ Reported(schedule[d][h], d, h)
             /\ schedule'[d][h] # schedule[d][h])
            => \E c \in Conns :
                  /\ Steps(c)
                  /\ username[c] = schedule[d][h]
                  /\ (IsCancel(req[c]) /\ cur_day[c] = d) \/ IsReset(req[c])
      ]_vars

\* the reset of connection r has wiped the grid and not yet the sessions
BetweenTheWipes(r) ==
    IsReset(req[r]) /\ pc[r] \in {"reset_open", "reset_dump", "clear_all_sessions"}

\* C37: POST /reset wipes the grid and the session store as one step with
\* respect to the other requests: while a reset stands between its grid wipe
\* and its session wipe no other connection's request is routed, and a step
\* that writes an owner into the grid belongs to a request whose token is in
\* the session store at that moment, so that no reservation made with a token
\* issued before a reset lands in the grid after it.
C37_ResetIsOneStep ==
    [][\A c \in Conns :
        /\ (pc[c] = "idle" /\ pc'[c] # "idle")
           => \A r \in Conns \ {c} : ~BetweenTheWipes(r)
        /\ (/\ Steps(c)
            /\ \E d \in Days, h \in Hours :
                  schedule'[d][h] # schedule[d][h] /\ schedule'[d][h] \in Users)
           => validate_token(active_sessions, extract_token(req[c])) = username[c]
      ]_vars

IsGet(r) == IsWeekView(r) \/ IsDayView(r) \/ IsMyReservations(r)

\* C39: requests that do not succeed in mutating leave the state as it is.
\* No step of the handler of GET /schedule, GET /schedule/day or
\* GET /reservations changes the grid, the session store or the snapshot file;
\* a request answered with a status outside 200..299 has changed none of the
\* three, by the answering step or by any step before it; no step of a login
\* changes the grid or the file; no step of a reservation or a cancellation
\* changes the session store, and the file changes only in a handler that has
\* written the grid.
C39_FailuresChangeNothing ==
    [][\A c \in Conns :
        Steps(c) =>
          LET r == req'[c] IN
          /\ IsGet(r) =>
                schedule' = schedule /\ active_sessions' = active_sessions /\ file' = file
          /\ (Answers(c) /\ ~build_success(status'[c])) =>
                /\ schedule' = schedule /\ active_sessions' = active_sessions /\ file' = file
                /\ ~wrote'[c]
          /\ IsLogin(r) => schedule' = schedule /\ file' = file
          /\ (IsReserve(r) \/ IsCancel(r)) => active_sessions' = active_sessions
          /\ (~IsReset(r) /\ active_sessions' # active_sessions) =>
                IsLogin(r) /\ status'[c] = 200
          /\ file' # file => wrote[c]
      ]_vars

\* a GET has been answered 200 and a reservation refused with 409, beside a
\* grid with an owner and a snapshot on file
C39_Witness ==
    \E c1, c2 \in Conns :
        /\ Done(c1) /\ IsGet(req[c1]) /\ status[c1] = 200
        /\ Done(c2) /\ IsReserve(req[c2]) /\ status[c2] = 409 /\ ~wrote[c2]
        /\ schedule # EmptySchedule
        /\ file.state = "written"

\* the tokens under which user u is logged in
TokensOf(sessions, u) == {t \in DOMAIN sessions : validate_token(sessions, t) = u}

ClearsSessions == \E c \in Conns : IsReset(req[c]) /\ pc[c] = "clear_all_sessions" /\ pc'[c] # pc[c]

\* C40: a user may hold several sessions at once.  A successful login of u
\* adds one token to those that validate as u, a token that did not validate
\* before, and every token that validated as u before it still does; and by
\* every step other than the session wipe of a reset every token that
\* validates keeps validating as the same user, so that between two resets
\* the set of active sessions never shrinks.
C40_SessionsOnlyGrow ==
    [][/\ \A c \in Conns :
            (LoginStep(c) /\ status'[c] = 200) =>
                LET u == req'[c].body.username
                    t == message'[c].who
                IN  /\ validate_token(active_sessions, t) = None
                    /\ validate_token(active_sessions', t) = u
                    /\ TokensOf(active_sessions', u) = TokensOf(active_sessions, u) \cup {t}
                    /\ Cardinality(TokensOf(active_sessions', u))
                          = Cardinality(TokensOf(active_sessions, u)) + 1
       /\ ~ClearsSessions =>
            \A t \in DOMAIN active_sessions :
                /\ validate_token(active_sessions, t) # None
                /\ validate_token(active_sessions', t) = validate_token(active_sessions, t)
      ]_vars

\* the first user holds two sessions: the second login has been answered and a
\* reservation accepted under the first token is being handled
C40_Witness ==
    /\ TokensOf(active_sessions, USER_NAMES[1]) = {uuid4(1), uuid4(2)}
    /\ \E c \in Conns :
          /\ pc[c] = "rs_write" /\ req[c].auth.cred = uuid4(1)
          /\ username[c] = USER_NAMES[1]
    /\ \E c \in Conns :
          /\ Done(c) /\ IsLogin(req[c]) /\ status[c] = 200 /\ message[c].who = uuid4(2)
====
